---- MODULE Spec2Model ----
(***************************************************************************)
(* Model of bundle-stats-action: the orchestrating run (src/main.ts), the  *)
(* PR comment manager, the stats parser and the bundle analyzer.           *)
(*                                                                         *)
(* Strings the code inspects character by character (asset names, action   *)
(* inputs) are sequences of one-character strings.  A comment body is the  *)
(* sequence of its parts (the parts the formatter joins with newlines);    *)
(* String.includes(marker) on a body is membership of the marker part.     *)
(***************************************************************************)
EXTENDS Naturals, Integers, Sequences, FiniteSets, TLC

(***************************************************************************)
(* Bounds of the model                                                     *)
(***************************************************************************)
MaxAssets == 3
MaxSize == 2
MaxRuns == 2
MaxChunkList == 2
MaxFormatAssets == 7
MaxListAssets == 22
MaxShift == 2
MaxNameLen == 3

(***************************************************************************)
(* Generic helpers                                                         *)
(***************************************************************************)
Absent == "absent"
(* an optional boolean of the manifest: "true", "false" or Absent *)
JsTrue == "true"
JsFalse == "false"
(* an optional list or mapping of the manifest *)
Missing == [present |-> FALSE, items |-> <<>>]
Present(items) == [present |-> TRUE, items |-> items]
NoValue == [none |-> TRUE]

Range(s) == {s[i] : i \in 1..Len(s)}

RECURSIVE SumSizes(_)
SumSizes(s) == IF s = <<>> THEN 0 ELSE Head(s).size + SumSizes(Tail(s))

SeqsUpTo(S, n) == UNION {[1..k -> S] : k \in 0..n}

(* String.prototype.endsWith *)
endsWith(s, suffix) ==
    /\ Len(s) >= Len(suffix)
    /\ SubSeq(s, Len(s) - Len(suffix) + 1, Len(s)) = suffix

MAP_SUFFIX == <<".", "m", "a", "p">>
LICENSE_SUFFIX == <<".", "L", "I", "C", "E", "N", "S", "E", ".", "t", "x", "t">>

Digits == <<"0", "1", "2", "3", "4", "5", "6", "7", "8", "9">>

(* String(n) of a non-negative integer: its decimal digits *)
RECURSIVE toDecimal(_)
toDecimal(n) ==
    IF n < 10 THEN <<Digits[n + 1]>>
    ELSE toDecimal(n \div 10) \o <<Digits[(n % 10) + 1]>>

(***************************************************************************)
(* Size formatter (src/utils/file-size.ts)                                 *)
(*                                                                         *)
(* A byte count is a JavaScript number holding an integer.  It is kept as  *)
(* a sign and a magnitude, the magnitude in digits of base 1024, least     *)
(* significant first and without a leading zero digit (<<>> is zero), so   *)
(* that counts of 2^31 bytes and more can be formatted.  Every count used  *)
(* has at most 30 significant bits, so absBytes and absBytes / 1024^i are  *)
(* exact as doubles.                                                       *)
(***************************************************************************)
Kilo == 1024

SIZES == <<<<"B">>, <<"K", "B">>, <<"M", "B">>, <<"G", "B">>>>

(* the text a template literal gives for the value undefined *)
UndefinedText == <<"u", "n", "d", "e", "f", "i", "n", "e", "d">>

RECURSIVE magnitudeOf(_)
magnitudeOf(n) ==
    IF n = 0 THEN <<>> ELSE <<n % Kilo>> \o magnitudeOf(n \div Kilo)

(* the number with the integer value n *)
jsNumber(n) ==
    [negative |-> n < 0, magnitude |-> magnitudeOf(IF n < 0 THEN -n ELSE n)]

(* SIZES[i]: an index past the end of the array gives undefined *)
sizesAt(i) == IF i + 1 <= Len(SIZES) THEN SIZES[i + 1] ELSE UndefinedText

(* the integer part of (fraction * factor) / 1024^Len(fraction), by long   *)
(* multiplication from the least significant digit                         *)
RECURSIVE carryOut(_, _, _)
carryOut(fraction, factor, carry) ==
    IF fraction = <<>> THEN carry
    ELSE carryOut(Tail(fraction), factor,
                  (Head(fraction) * factor + carry) \div Kilo)

(* the integer nearest to size * 10^places, ties upwards, for              *)
(* size = whole + fraction / 1024^Len(fraction): what Math.round (places   *)
(* 0) and Number.prototype.toFixed choose for a positive size              *)
roundScaled(whole, fraction, places) ==
    LET scale == IF places = 0 THEN 1 ELSE IF places = 1 THEN 10 ELSE 100
    IN whole * scale + (carryOut(fraction, 2 * scale, 0) + 1) \div 2

(* the decimal text of scaled / 10^places with exactly places decimals *)
fixedText(scaled, places) ==
    IF places = 0 THEN toDecimal(scaled)
    ELSE IF places = 1
    THEN toDecimal(scaled \div 10) \o <<".", Digits[(scaled % 10) + 1]>>
    ELSE toDecimal(scaled \div 100)
         \o <<".", Digits[((scaled \div 10) % 10) + 1], Digits[(scaled % 10) + 1]>>

formatFileSizeTwoPlaces(bytes) ==
    IF bytes.magnitude = <<>> THEN <<"0", " ", "B">>
    ELSE LET absBytes == bytes.magnitude
             i == Len(absBytes) - 1
             whole == absBytes[i + 1]
             fraction == SubSeq(absBytes, 1, i)
             formatted ==
                 IF i = 0
                 THEN fixedText(roundScaled(whole, fraction, 0), 0)
                      \o <<" ">> \o sizesAt(i)
                 ELSE fixedText(roundScaled(whole, fraction, 2), 2)
                      \o <<" ">> \o sizesAt(i)
         IN IF bytes.negative THEN <<"-">> \o formatted ELSE formatted

(* i = Math.floor(Math.log(absBytes) / Math.log(k)) is the index of the    *)
(* most significant base-1024 digit: the quotient of the two logarithms    *)
(* is exact at the powers of 1024 and more than an ulp away from an        *)
(* integer elsewhere for the counts used                                   *)
formatFileSize(bytes) ==
    IF bytes.magnitude = <<>> THEN <<"0", " ", "B">>
    ELSE LET negative == bytes.negative
             absBytes == bytes.magnitude
             i == Len(absBytes) - 1
             whole == absBytes[i + 1]
             fraction == SubSeq(absBytes, 1, i)
             formatted ==
                 IF i = 0
                 THEN fixedText(roundScaled(whole, fraction, 0), 0)
                      \o <<" ">> \o sizesAt(i)
                 ELSE IF whole >= 100
                 THEN fixedText(roundScaled(whole, fraction, 0), 0)
                      \o <<" ">> \o sizesAt(i)
                 ELSE IF whole >= 10
                 THEN fixedText(roundScaled(whole, fraction, 1), 1)
                      \o <<" ">> \o sizesAt(i)
                 ELSE fixedText(roundScaled(whole, fraction, 2), 2)
                      \o <<" ">> \o sizesAt(i)
         IN IF negative THEN <<"-">> \o formatted ELSE formatted


(***************************************************************************)
(* Bundle analyzer (src/analyzer/bundle-analyzer.ts)                       *)
(***************************************************************************)

(* the predicate of assets.filter(...) in analyzeAssets *)
isReportableEmittedOnly(asset) ==
    /\ ~endsWith(asset.name, MAP_SUFFIX)
    /\ ~endsWith(asset.name, LICENSE_SUFFIX)
    /\ asset.emitted = JsTrue

isReportable(asset) ==
    /\ ~endsWith(asset.name, MAP_SUFFIX)
    /\ ~endsWith(asset.name, LICENSE_SUFFIX)
    /\ asset.emitted # JsFalse

(* the callback of .map(...) in analyzeAssets *)
toAnalyzedAssetInclusive(asset, threshold, chunkMapping) ==
    [name |-> asset.name,
     size |-> asset.size,
     sizeText |-> formatFileSize(jsNumber(asset.size)),
     exceeded |-> asset.size >= threshold,
     chunkNames |-> IF asset.name \in DOMAIN chunkMapping
                    THEN chunkMapping[asset.name] ELSE <<>>,
     isInitial |-> IF asset.isOverSizeLimit # Absent
                   THEN (IF asset.isOverSizeLimit = JsTrue
                         THEN JsFalse ELSE JsTrue)
                   ELSE Absent]

toAnalyzedAsset(asset, threshold, chunkMapping) ==
    [name |-> asset.name,
     size |-> asset.size,
     sizeText |-> formatFileSize(jsNumber(asset.size)),
     exceeded |-> asset.size > threshold,
     chunkNames |-> IF asset.name \in DOMAIN chunkMapping
                    THEN chunkMapping[asset.name] ELSE <<>>,
     isInitial |-> IF asset.isOverSizeLimit # Absent
                   THEN (IF asset.isOverSizeLimit = JsTrue
                         THEN JsFalse ELSE JsTrue)
                   ELSE Absent]

(* the comparator (a, b) => b.size - a.size *)
compareBySizeDesc(a, b) == b.size - a.size

(* Array.prototype.sort is stable: x goes before the first element that   *)
(* the comparator orders strictly after it.                                *)
RECURSIVE sortInsertUnstable(_, _)
sortInsertUnstable(x, sorted) ==
    IF sorted = <<>> THEN <<x>>
    ELSE IF compareBySizeDesc(x, Head(sorted)) <= 0
         THEN <<x>> \o sorted
         ELSE <<Head(sorted)>> \o sortInsertUnstable(x, Tail(sorted))

RECURSIVE sortInsert(_, _)
sortInsert(x, sorted) ==
    IF sorted = <<>> THEN <<x>>
    ELSE IF compareBySizeDesc(x, Head(sorted)) < 0
         THEN <<x>> \o sorted
         ELSE <<Head(sorted)>> \o sortInsert(x, Tail(sorted))

RECURSIVE sortStable(_)
sortStable(s) ==
    IF s = <<>> THEN <<>>
    ELSE sortInsert(s[Len(s)], sortStable(SubSeq(s, 1, Len(s) - 1)))

analyzeAssets(assets, threshold, chunkMapping) ==
    LET kept == SelectSeq(assets, isReportable)
        mapped == [i \in 1..Len(kept) |->
                      toAnalyzedAsset(kept[i], threshold, chunkMapping)]
    IN sortStable(mapped)

isExceededAny(asset) == TRUE

(* the predicate of analyzedAssets.filter((asset) => asset.exceeded) *)
isExceeded(asset) == asset.exceeded

(* the threshold member of the value analyze returns *)
thresholdOfTotalOnly(individualExceeded, totalExceeded) ==
    [individualExceeded |-> individualExceeded,
     totalExceeded |-> totalExceeded,
     anyExceeded |-> totalExceeded]

thresholdOf(individualExceeded, totalExceeded) ==
    [individualExceeded |-> individualExceeded,
     totalExceeded |-> totalExceeded,
     anyExceeded |-> Len(individualExceeded) > 0 \/ totalExceeded]

(* Map.get(key) || [] and Map.set(key, value) on the chunk mapping *)
mappingGet(mapping, key) ==
    IF key \in DOMAIN mapping THEN mapping[key] ELSE <<>>

mappingSet(mapping, key, value) ==
    [k \in (DOMAIN mapping) \cup {key} |->
        IF k = key THEN value ELSE mapping[k]]

(* Array.prototype.includes *)
includes(list, x) == \E i \in 1..Len(list) : list[i] = x

(* existing.push(name) unless existing.includes(name), for each name *)
RECURSIVE pushMissing(_, _)
pushMissing(existing, names) ==
    IF names = <<>> THEN existing
    ELSE pushMissing(IF includes(existing, Head(names))
                     THEN existing
                     ELSE Append(existing, Head(names)),
                     Tail(names))

(* first loop: assetsByChunkName, one name or a list of names per chunk    *)
(* (a single name is held as a one-element assets with isArray false);     *)
(* the chunk name is pushed without an includes check                      *)
RECURSIVE addChunkNameAssets(_, _, _)
addChunkNameAssets(mapping, chunkName, assetList) ==
    IF assetList = <<>> THEN mapping
    ELSE addChunkNameAssets(
            mappingSet(mapping, Head(assetList),
                       Append(mappingGet(mapping, Head(assetList)), chunkName)),
            chunkName, Tail(assetList))

RECURSIVE addAssetsByChunkName(_, _)
addAssetsByChunkName(mapping, entries) ==
    IF entries = <<>> THEN mapping
    ELSE LET e == Head(entries)
             assetList == IF e.isArray THEN e.assets ELSE <<Head(e.assets)>>
         IN addAssetsByChunkName(
                addChunkNameAssets(mapping, e.chunkName, assetList),
                Tail(entries))

(* second loop: chunks[].files x chunks[].names *)
RECURSIVE addChunkFiles(_, _, _)
addChunkFiles(mapping, files, names) ==
    IF files = <<>> THEN mapping
    ELSE addChunkFiles(
            mappingSet(mapping, Head(files),
                       pushMissing(mappingGet(mapping, Head(files)), names)),
            Tail(files), names)

RECURSIVE addChunks(_, _)
addChunks(mapping, chunks) ==
    IF chunks = <<>> THEN mapping
    ELSE LET chunk == Head(chunks)
         IN addChunks(IF chunk.files.present
                      THEN addChunkFiles(mapping, chunk.files.items, chunk.names)
                      ELSE mapping,
                      Tail(chunks))

(* third loop: namedChunkGroups *)
RECURSIVE addNamedChunkGroups(_, _)
addNamedChunkGroups(mapping, groups) ==
    IF groups = <<>> THEN mapping
    ELSE LET g == Head(groups)
         IN addNamedChunkGroups(
                addChunkFiles(mapping, g.assets, <<g.groupName>>),
                Tail(groups))

buildChunkMappingGroupsFirst(stats) ==
    LET m0 == <<>>
        m1 == IF stats.assetsByChunkName.present
              THEN addAssetsByChunkName(m0, stats.assetsByChunkName.items)
              ELSE m0
        m2 == IF stats.namedChunkGroups.present
              THEN addNamedChunkGroups(m1, stats.namedChunkGroups.items)
              ELSE m1
        m3 == IF stats.chunks.present
              THEN addChunks(m2, stats.chunks.items) ELSE m2
    IN m3

buildChunkMapping(stats) ==
    LET m0 == <<>>
        m1 == IF stats.assetsByChunkName.present
              THEN addAssetsByChunkName(m0, stats.assetsByChunkName.items)
              ELSE m0
        m2 == IF stats.chunks.present
              THEN addChunks(m1, stats.chunks.items) ELSE m1
        m3 == IF stats.namedChunkGroups.present
              THEN addNamedChunkGroups(m2, stats.namedChunkGroups.items)
              ELSE m2
    IN m3

(* totalSize > config.totalSizeThreshold *)
exceedsTotalInclusive(totalSize, totalSizeThreshold) ==
    totalSize >= totalSizeThreshold

exceedsTotal(totalSize, totalSizeThreshold) ==
    totalSize > totalSizeThreshold

analyze(stats, config) ==
    LET chunkMapping == buildChunkMapping(stats)
        analyzedAssets == analyzeAssets(stats.assets,
                                        config.bundleSizeThreshold,
                                        chunkMapping)
        totalSize == SumSizes(analyzedAssets)
        exceededFiles == SelectSeq(analyzedAssets, isExceeded)
        individualExceeded == [i \in 1..Len(exceededFiles) |->
                                  exceededFiles[i].name]
        totalExceeded == exceedsTotal(totalSize, config.totalSizeThreshold)
    IN [assets |-> analyzedAssets,
        summary |-> [totalSize |-> totalSize,
                     totalSizeText |-> formatFileSize(jsNumber(totalSize)),
                     fileCount |-> Len(analyzedAssets),
                     exceededFileCount |-> Len(exceededFiles)],
        threshold |-> thresholdOf(individualExceeded, totalExceeded)]

(* the array stats.assets after analyze returned: filter and map build new *)
(* arrays and sort is called on the array map returned, so the array of    *)
(* the manifest keeps its elements and their order                         *)
assetsAfterAnalyzeSortedInPlace(assets) == sortStable(assets)

assetsAfterAnalyze(assets) == assets

(***************************************************************************)
(* Errors (src/errors.ts)                                                  *)
(*                                                                         *)
(* A thrown value is a record: isError (instanceof Error), isBSE           *)
(* (instanceof BundleStatsError), code and level of a BundleStatsError,    *)
(* msg (what the message says), and rateLimit / notAccessible: whether     *)
(* the message includes 'rate limit' / 'Resource not accessible'.          *)
(***************************************************************************)
NoError == [isError |-> FALSE, isBSE |-> FALSE, code |-> "none",
            level |-> "none", msg |-> "none",
            rateLimit |-> FALSE, notAccessible |-> FALSE]

(* new Error(message) *)
plainError(msg) ==
    [isError |-> TRUE, isBSE |-> FALSE, code |-> "none", level |-> "none",
     msg |-> msg, rateLimit |-> FALSE, notAccessible |-> FALSE]

createError(code, msg, level, rateLimit, notAccessible) ==
    [isError |-> TRUE, isBSE |-> TRUE, code |-> code, level |-> level,
     msg |-> msg, rateLimit |-> rateLimit, notAccessible |-> notAccessible]

toUserMessage(error) ==
    CASE error.code = "FILE_NOT_FOUND" -> "Could not find the stats file"
      [] error.code = "JSON_PARSE_ERROR" -> "Failed to parse the stats file"
      [] error.code = "INVALID_STATS_FORMAT" -> "The stats file format is invalid"
      [] error.code = "FILE_TOO_LARGE" -> "The stats file is too large to process"
      [] error.code = "GITHUB_API_ERROR" -> "Failed to communicate with GitHub API"
      [] error.code = "RATE_LIMIT_ERROR" -> "GitHub API rate limit exceeded"
      [] error.code = "INVALID_THRESHOLD" -> "Invalid threshold configuration"
      [] OTHER -> "An unexpected error occurred"

(***************************************************************************)
(* Stats parser (src/parser/stats-parser.ts)                               *)
(***************************************************************************)
MAX_FILE_SIZE == 50 * 1024 * 1024

(* typeof data === 'object' && data !== null && 'assets' in data &&        *)
(* Array.isArray(data.assets)                                              *)
isValidStatsNonEmpty(data) ==
    /\ data.kind \in {"object", "array", "null"}
    /\ data.kind # "null"
    /\ data.hasAssets
    /\ data.assetsIsArray
    /\ data.value.assets # <<>>

isValidStats(data) ==
    /\ data.kind \in {"object", "array", "null"}
    /\ data.kind # "null"
    /\ data.hasAssets
    /\ data.assetsIsArray

(* result of a call that may throw: [ok, value, error] *)
Returned(v) == [ok |-> TRUE, value |-> v, error |-> NoError]
Thrown(e) == [ok |-> FALSE, value |-> NoValue, error |-> e]

parse(content) ==
    IF ~content.validJson
    THEN Thrown(createError("JSON_PARSE_ERROR", "Invalid JSON in stats file",
                            "fatal", FALSE, FALSE))
    ELSE IF ~isValidStats(content.data)
    THEN Thrown(createError("INVALID_STATS_FORMAT",
                            "Invalid webpack stats format", "fatal",
                            FALSE, FALSE))
    ELSE Returned(content.data.value)

parseFileReadFirst(file) ==
    IF ~file.exists
    THEN Thrown(createError("FILE_NOT_FOUND", "Stats file not found",
                            "fatal", FALSE, FALSE))
    ELSE IF ~file.readable
    THEN Thrown(createError("FILE_READ_ERROR", "Failed to read stats file",
                            "fatal", FALSE, FALSE))
    ELSE IF file.size > MAX_FILE_SIZE
    THEN Thrown(createError("FILE_TOO_LARGE", "Stats file too large",
                            "fatal", FALSE, FALSE))
    ELSE parse(file.content)

parseFile(file) ==
    IF ~file.exists
    THEN Thrown(createError("FILE_NOT_FOUND", "Stats file not found",
                            "fatal", FALSE, FALSE))
    ELSE IF file.size > MAX_FILE_SIZE
    THEN Thrown(createError("FILE_TOO_LARGE", "Stats file too large",
                            "fatal", FALSE, FALSE))
    ELSE IF ~file.readable
    THEN Thrown(createError("FILE_READ_ERROR", "Failed to read stats file",
                            "fatal", FALSE, FALSE))
    ELSE parse(file.content)

(***************************************************************************)
(* Configuration and run context (src/main.ts)                             *)
(***************************************************************************)
isDigit(c) == \E i \in 1..10 : Digits[i] = c
digitValue(c) == (CHOOSE i \in 1..10 : Digits[i] = c) - 1

RECURSIVE digitsPrefix(_, _, _)
digitsPrefix(s, acc, seen) ==
    IF s # <<>> /\ isDigit(Head(s))
    THEN digitsPrefix(Tail(s), acc * 10 + digitValue(Head(s)), TRUE)
    ELSE [nan |-> ~seen, value |-> acc]

RECURSIVE skipWhitespace(_)
skipWhitespace(s) ==
    IF s # <<>> /\ Head(s) = " " THEN skipWhitespace(Tail(s)) ELSE s

(* parseInt(str, 10): leading blanks, an optional sign, the longest run   *)
(* of digits; NaN when there is no digit                                   *)
parseInt(str) ==
    LET s == skipWhitespace(str)
        signed == s # <<>> /\ Head(s) \in {"+", "-"}
        negative == s # <<>> /\ Head(s) = "-"
        r == digitsPrefix(IF signed THEN Tail(s) ELSE s, 0, FALSE)
    IN [nan |-> r.nan,
        value |-> IF negative THEN 0 - r.value ELSE r.value]

isNaN(n) == n.nan

DEFAULT_BUNDLE_SIZE_THRESHOLD == <<"2", "0", "9", "7", "1", "5", "2">>
DEFAULT_TOTAL_SIZE_THRESHOLD == <<"1", "0", "4", "8", "5", "7", "6", "0">>

(* core.getInput(name) || fallback *)
inputOr(raw, fallback) == IF raw = <<>> THEN fallback ELSE raw

getConfig(in) ==
    LET bundleSizeThreshold ==
            parseInt(inputOr(in.bundleSizeThreshold,
                             DEFAULT_BUNDLE_SIZE_THRESHOLD))
        totalSizeThreshold ==
            parseInt(inputOr(in.totalSizeThreshold,
                             DEFAULT_TOTAL_SIZE_THRESHOLD))
    IN IF isNaN(bundleSizeThreshold) \/ bundleSizeThreshold.value <= 0
       THEN Thrown(plainError("bundle-size-threshold must be a positive number"))
       ELSE IF isNaN(totalSizeThreshold) \/ totalSizeThreshold.value <= 0
       THEN Thrown(plainError("total-size-threshold must be a positive number"))
       ELSE Returned([bundleSizeThreshold |-> bundleSizeThreshold.value,
                      totalSizeThreshold |-> totalSizeThreshold.value,
                      failOnThresholdExceed |-> in.failOnThresholdExceed])

(* null when the event is not a pull request event or has no pull_request *)
getPRContext(in) ==
    IF in.eventName # "pull_request" /\ in.eventName # "pull_request_target"
    THEN FALSE
    ELSE IF ~in.hasPullRequest THEN FALSE
    ELSE TRUE

(***************************************************************************)
(* Report formatter and badge (src/formatter)                              *)
(*                                                                         *)
(* A document is the sequence of the parts that format joins with '\n';    *)
(* a part is a record tagged by kind.                                      *)
(***************************************************************************)
COMMENT_IDENTIFIER == "<!-- bundle-stats-action -->"
PROCESSING_IDENTIFIER == "<!-- bundle-stats-action-processing -->"
MAX_WARNING_FILES == 5
MAX_LISTED_FILES == 20

markerPart(id) == [kind |-> "marker", text |-> id]
blankPart == [kind |-> "blank"]

Min(a, b) == IF a < b THEN a ELSE b

formatHeader(result) ==
    [kind |-> "header",
     emoji |-> IF result.threshold.anyExceeded THEN "warning" ELSE "check"]

formatSummary(result, config) ==
    [kind |-> "summary",
     totalSize |-> result.summary.totalSizeText,
     totalOk |-> ~result.threshold.totalExceeded,
     totalDetail |-> IF result.threshold.totalExceeded
                     THEN <<"Exceeds limit of",
                            formatFileSize(jsNumber(config.totalSizeThreshold))>>
                     ELSE <<"Within limit">>,
     fileCount |-> result.summary.fileCount,
     filesOk |-> result.summary.exceededFileCount = 0,
     filesDetail |-> IF result.summary.exceededFileCount > 0
                     THEN <<result.summary.exceededFileCount,
                            "file(s) exceed individual limit">>
                     ELSE <<"All within limit">>]

(* String.prototype.replace(/c/g, replacement) for a one-character pattern *)
RECURSIVE replaceAll(_, _, _)
replaceAll(text, c, replacement) ==
    IF text = <<>> THEN <<>>
    ELSE (IF Head(text) = c THEN replacement ELSE <<Head(text)>>)
         \o replaceAll(Tail(text), c, replacement)

(* escapeMarkdown (src/utils/markdown.ts): the five replacements in order *)
escapeMarkdown(text) ==
    LET t1 == replaceAll(text, "|", <<"\\", "|">>)
        t2 == replaceAll(t1, "<", <<"&", "l", "t", ";">>)
        t3 == replaceAll(t2, ">", <<"&", "g", "t", ";">>)
        t4 == replaceAll(t3, "\"", <<"&", "q", "u", "o", "t", ";">>)
        t5 == replaceAll(t4, "'", <<"&", "#", "3", "9", ";">>)
    IN t5

(* Array.prototype.join *)
RECURSIVE join(_, _)
join(texts, separator) ==
    IF texts = <<>> THEN <<>>
    ELSE IF Len(texts) = 1 THEN Head(texts)
    ELSE Head(texts) \o separator \o join(Tail(texts), separator)

(* the character U+0060, which a TLA+ string cannot hold *)
Backtick == "backtick"

(* the chunk names go into the cell as they are, between backticks *)
formatAssetName(asset) ==
    LET fileName == escapeMarkdown(asset.name)
    IN IF Len(asset.chunkNames) > 0
       THEN LET chunks == join([i \in 1..Len(asset.chunkNames) |->
                                  <<Backtick>> \o asset.chunkNames[i] \o <<Backtick>>],
                               <<",", " ">>)
            IN fileName \o <<" ", "(">> \o chunks \o <<")">>
       ELSE fileName

(* a row of the file tables: name cell, size, status *)
fileRow(asset) ==
    [file |-> formatAssetName(asset), size |-> asset.sizeText,
     status |-> IF asset.exceeded THEN "cross" ELSE "check"]

formatThresholdWarnings(result, config) ==
    LET names == result.threshold.individualExceeded
        shown == SubSeq(names, 1, Min(Len(names), MAX_WARNING_FILES))
        fileList == [i \in 1..Len(shown) |->
                        <<" ", " ", "-", " ">> \o escapeMarkdown(shown[i])]
        more == IF Len(names) > MAX_WARNING_FILES
                THEN <<Len(names) - MAX_WARNING_FILES>> ELSE <<>>
    IN [kind |-> "warnings",
        warnings |->
            (IF result.threshold.totalExceeded
             THEN <<[kind |-> "total",
                     totalSize |-> result.summary.totalSizeText,
                     limit |-> formatFileSize(jsNumber(config.totalSizeThreshold)),
                     fileList |-> <<>>, more |-> <<>>]>>
             ELSE <<>>)
            \o (IF Len(names) > 0
                THEN <<[kind |-> "files",
                        totalSize |-> result.summary.totalSizeText,
                        limit |-> formatFileSize(jsNumber(config.bundleSizeThreshold)),
                        fileList |-> fileList, more |-> more]>>
                ELSE <<>>)]

(* createDetailsSection (src/utils/markdown.ts): the summary goes through   *)
(* escapeMarkdown, the content is kept as it is                            *)
createDetailsSection(summary, content) ==
    [summary |-> escapeMarkdown(summary), content |-> content]

(* the template text "Show ${remainingFiles.length} more files" *)
moreFilesTitle(count) ==
    <<"S", "h", "o", "w", " ">> \o toDecimal(count)
    \o <<" ", "m", "o", "r", "e", " ", "f", "i", "l", "e", "s">>

formatFileListFromCut(result) ==
    LET assets == result.assets
        n == Len(assets)
        topFiles == SubSeq(assets, 1, Min(n, MAX_LISTED_FILES))
        remainingFiles == IF n >= MAX_LISTED_FILES
                          THEN SubSeq(assets, MAX_LISTED_FILES, n)
                          ELSE <<>>
    IN [kind |-> "fileList",
        top |-> [i \in 1..Len(topFiles) |-> fileRow(topFiles[i])],
        details |->
            IF Len(remainingFiles) > 0
            THEN <<createDetailsSection(
                      moreFilesTitle(Len(remainingFiles)),
                      [i \in 1..Len(remainingFiles) |-> fileRow(remainingFiles[i])])>>
            ELSE <<>>]

(* topFiles = assets.slice(0, 20), remainingFiles = assets.slice(20); the  *)
(* details section is appended only if remainingFiles is not empty         *)
formatFileList(result) ==
    LET assets == result.assets
        n == Len(assets)
        topFiles == SubSeq(assets, 1, Min(n, MAX_LISTED_FILES))
        remainingFiles == IF n > MAX_LISTED_FILES
                          THEN SubSeq(assets, MAX_LISTED_FILES + 1, n)
                          ELSE <<>>
    IN [kind |-> "fileList",
        top |-> [i \in 1..Len(topFiles) |-> fileRow(topFiles[i])],
        details |->
            IF Len(remainingFiles) > 0
            THEN <<createDetailsSection(
                      moreFilesTitle(Len(remainingFiles)),
                      [i \in 1..Len(remainingFiles) |-> fileRow(remainingFiles[i])])>>
            ELSE <<>>]

formatAlwaysWarns(result, config) ==
    <<markerPart(COMMENT_IDENTIFIER), formatHeader(result), blankPart,
      formatSummary(result, config), blankPart>>
    \o <<formatThresholdWarnings(result, config), blankPart>>
    \o <<formatFileList(result)>>

format(result, config) ==
    <<markerPart(COMMENT_IDENTIFIER), formatHeader(result), blankPart,
      formatSummary(result, config), blankPart>>
    \o (IF result.threshold.anyExceeded
        THEN <<formatThresholdWarnings(result, config), blankPart>>
        ELSE <<>>)
    \o <<formatFileList(result)>>

formatProcessing ==
    <<markerPart(PROCESSING_IDENTIFIER),
      [kind |-> "header", emoji |-> "chart"],
      blankPart,
      [kind |-> "text", text |-> "Analyzing bundle size..."]>>

getColorsCountFirst(result) ==
    IF result.summary.exceededFileCount > 0 THEN "warning"
    ELSE IF result.threshold.anyExceeded THEN "error"
    ELSE "success"

getColors(result) ==
    IF result.threshold.anyExceeded THEN "error"
    ELSE IF result.summary.exceededFileCount > 0 THEN "warning"
    ELSE "success"

generate(result) ==
    [label |-> "bundle size",
     value |-> result.summary.totalSizeText,
     colors |-> getColors(result)]

generateStatus(result) ==
    [label |-> "bundle",
     value |-> IF result.threshold.anyExceeded THEN "failing" ELSE "passing",
     colors |-> getColors(result)]

(* result.assets after format, generate and generateStatus returned:       *)
(* formatFileList takes its two parts with slice, which copies, and the    *)
(* other functions only read the result                                    *)
assetsAfterReport(assets) == assets

(***************************************************************************)
(* Comment manager (src/manager/comment-manager.ts) over the comment       *)
(* thread of the pull request: a sequence of [id, body] in creation order  *)
(***************************************************************************)
PER_PAGE == 100

(* the characters of the two identifiers *)
identifierText(id) ==
    IF id = PROCESSING_IDENTIFIER
    THEN <<"<", "!", "-", "-", " ", "b", "u", "n", "d", "l", "e", "-",
           "s", "t", "a", "t", "s", "-", "a", "c", "t", "i", "o", "n", "-",
           "p", "r", "o", "c", "e", "s", "s", "i", "n", "g", " ", "-", "-", ">">>
    ELSE <<"<", "!", "-", "-", " ", "b", "u", "n", "d", "l", "e", "-",
           "s", "t", "a", "t", "s", "-", "a", "c", "t", "i", "o", "n", " ",
           "-", "-", ">">>

(* String.prototype.includes *)
includesText(text, pattern) ==
    \E i \in 1..(Len(text) - Len(pattern) + 1) :
        SubSeq(text, i, i + Len(pattern) - 1) = pattern

(* the texts of a part of a body that are taken from the manifest *)
manifestTexts(part) ==
    IF part.kind = "fileList"
    THEN {part.top[r].file : r \in 1..Len(part.top)}
         \cup UNION {{part.details[d].content[r].file :
                        r \in 1..Len(part.details[d].content)} :
                     d \in 1..Len(part.details)}
    ELSE IF part.kind = "warnings"
    THEN UNION {Range(part.warnings[w].fileList) : w \in 1..Len(part.warnings)}
    ELSE {}

(* comment.body?.includes(marker): the marker is found in the first line   *)
(* of a document the formatter made, or inside a text that the document    *)
(* took from the manifest; the fixed texts of a document hold no marker    *)
bodyIncludes(body, marker) ==
    \E i \in 1..Len(body) :
        \/ /\ body[i].kind = "marker"
           /\ includesText(identifierText(body[i].text), identifierText(marker))
        \/ \E text \in manifestTexts(body[i]) :
              includesText(text, identifierText(marker))

(* what issues.listComments({per_page: 100}) returns: the first page *)
listPage(thread) == SubSeq(thread, 1, Min(Len(thread), PER_PAGE))

(* values the API client may throw *)
ApiFailures ==
    {[isError |-> TRUE, isBSE |-> FALSE, code |-> "none", level |-> "none",
      msg |-> "api", rateLimit |-> rl, notAccessible |-> na] :
        rl \in BOOLEAN, na \in BOOLEAN}
    \cup {[isError |-> FALSE, isBSE |-> FALSE, code |-> "none",
           level |-> "none", msg |-> "api", rateLimit |-> FALSE,
           notAccessible |-> FALSE]}

handleApiErrorNeverFatal(error, message) ==
    IF error.isError /\ error.rateLimit
    THEN createError("RATE_LIMIT_ERROR", message, "error", TRUE, FALSE)
    ELSE createError("GITHUB_API_ERROR", message, "error", FALSE, FALSE)

handleApiError(error, message) ==
    IF error.isError /\ error.rateLimit
    THEN createError("RATE_LIMIT_ERROR", message, "error", TRUE, FALSE)
    ELSE IF error.isError /\ error.notAccessible
    THEN createError("GITHUB_API_ERROR", message, "fatal", FALSE, FALSE)
    ELSE createError("GITHUB_API_ERROR", message, "error",
                     error.isError /\ error.rateLimit,
                     error.isError /\ error.notAccessible)

(* index in the page of the first comment carrying the report marker, or 0 *)
findComment(page) ==
    IF \E i \in 1..Len(page) : bodyIncludes(page[i].body, COMMENT_IDENTIFIER)
    THEN CHOOSE i \in 1..Len(page) :
            /\ bodyIncludes(page[i].body, COMMENT_IDENTIFIER)
            /\ \A j \in 1..(i - 1) :
                  ~bodyIncludes(page[j].body, COMMENT_IDENTIFIER)
    ELSE 0

updateComment(thread, id, body) ==
    [i \in 1..Len(thread) |->
        IF thread[i].id = id THEN [id |-> id, body |-> body] ELSE thread[i]]

createComment(thread, id, body) == Append(thread, [id |-> id, body |-> body])

(* issues.deleteComment for each id of ids *)
deleteComments(thread, ids) ==
    LET kept(c) == c.id \notin ids
    IN SelectSeq(thread, kept)

(* ids of the listed comments that carry the processing marker, in order *)
processingIds(page) ==
    LET hit(c) == bodyIncludes(c.body, PROCESSING_IDENTIFIER)
        sel == SelectSeq(page, hit)
    IN [i \in 1..Len(sel) |-> sel[i].id]

(***************************************************************************)
(* Inputs of the model                                                     *)
(***************************************************************************)
NameAJs == <<"a", ".", "j", "s">>
NameBJs == <<"b", ".", "j", "s">>
NameCJs == <<"c", ".", "j", "s">>
NameAJsMap == <<"a", ".", "j", "s", ".", "m", "a", "p">>
NameLicense == <<"a", ".", "j", "s">> \o LICENSE_SUFFIX
NameMapJs == <<"a", ".", "m", "a", "p", ".", "j", "s">>

(* chunk and chunk group names *)
ChunkMain == <<"m", "a", "i", "n">>
ChunkVendor == <<"v", "e", "n", "d", "o", "r">>
ChunkApp == <<"a", "p", "p">>
ChunkLazy == <<"l", "a", "z", "y">>

rawAsset(name, size, emitted) ==
    [name |-> name, size |-> size, emitted |-> emitted,
     isOverSizeLimit |-> Absent]

manifest(assets) ==
    [assets |-> assets, assetsByChunkName |-> Missing, chunks |-> Missing,
     namedChunkGroups |-> Missing]

(* manifests of the runs.  Under thresholds 1 (file) and 2 (total) the     *)
(* second has a file that exceeds while the total does not, the third      *)
(* exceeds both; under the default file threshold the third exceeds the    *)
(* total only.                                                             *)
RunManifests ==
    {manifest(<<>>),
     manifest(<<rawAsset(NameAJs, 2, JsTrue), rawAsset(NameAJsMap, 2, JsTrue)>>),
     manifest(<<rawAsset(NameBJs, 1, Absent), rawAsset(NameAJs, 2, JsTrue)>>)}

jsonValue(kind, hasAssets, assetsIsArray, value) ==
    [kind |-> kind, hasAssets |-> hasAssets,
     assetsIsArray |-> assetsIsArray, value |-> value]

fileOf(exists, size, readable, validJson, data) ==
    [exists |-> exists, size |-> size, readable |-> readable,
     content |-> [validJson |-> validJson, data |-> data]]

NoData == jsonValue("null", FALSE, FALSE, NoValue)

(* files at the stats path of a run: missing, too large, not a manifest,   *)
(* and one per manifest (ParseFiles below has every case of the parser)    *)
FilePool ==
    {fileOf(FALSE, 0, FALSE, FALSE, NoData),
     fileOf(TRUE, MAX_FILE_SIZE + 1, TRUE, TRUE,
            jsonValue("object", TRUE, TRUE, manifest(<<>>))),
     fileOf(TRUE, 10, TRUE, TRUE, jsonValue("object", FALSE, FALSE, NoValue))}
    \cup {fileOf(TRUE, 10, TRUE, TRUE, jsonValue("object", TRUE, TRUE, m)) :
             m \in RunManifests}

BundleThresholdInputs == {<<>>, <<"x">>, <<"0">>, <<"1">>}
TotalThresholdInputs == {<<"-", "1">>, <<"2">>}
EventNames == {"pull_request", "pull_request_target", "push"}

RunInputs ==
    [bundleSizeThreshold : BundleThresholdInputs,
     totalSizeThreshold : TotalThresholdInputs,
     failOnThresholdExceed : BOOLEAN,
     eventName : EventNames,
     hasPullRequest : BOOLEAN,
     token : BOOLEAN,
     file : FilePool]

(* number of unrelated comments already on the pull request *)
ExistingComments == {0, PER_PAGE}

unrelatedBody == <<[kind |-> "text", text |-> "unrelated"]>>

(***************************************************************************)
(* State                                                                   *)
(***************************************************************************)
VARIABLES
    runs,                 \* number of runs started on the pull request
    inputs,               \* action inputs, event, token and stats file
    pc,                   \* position of run()
    config,
    processingCommentId,  \* 0 while undefined
    stats,
    result,
    commentBody,
    badgeSvg,
    outputs,              \* core.setOutput calls: name -> value
    failed,               \* core.setFailed was called
    log,                  \* core.info/warning/error/setFailed calls
    steps,                \* steps of run() performed so far, in order
    thrown,               \* the error that reached the catch of run()
    finalPost,            \* result of commentManager.postComment
    postFault,            \* the API call postComment saw rejected, and its error
    faults,               \* best-effort API calls rejected during the run
    comments,             \* comment thread of the pull request
    nextId,               \* id the API gives to the next created comment
    byteCount,            \* argument of a call of formatFileSize
    sizeText              \* the text that call returned

vars == <<runs, inputs, pc, config, processingCommentId, stats, result,
          commentBody, badgeSvg, outputs, failed, log, steps, thrown,
          finalPost, postFault, faults, comments, nextId, byteCount, sizeText>>

runVars == <<config, processingCommentId, stats, result, commentBody,
             badgeSvg, outputs, failed, log, steps, thrown, finalPost,
             postFault, faults>>

NotCalled == [ok |-> FALSE, value |-> NoValue, error |-> NoError]
NoFault == [call |-> "none", error |-> NoError]

NoInputs == [none |-> TRUE]

FreshRun ==
    /\ config = NoValue
    /\ processingCommentId = 0
    /\ stats = NoValue
    /\ result = NoValue
    /\ commentBody = <<>>
    /\ badgeSvg = NoValue
    /\ outputs = <<>>
    /\ failed = FALSE
    /\ log = <<>>
    /\ steps = <<>>
    /\ thrown = NoError
    /\ finalPost = NotCalled
    /\ postFault = NoFault
    /\ faults = {}

Init ==
    /\ runs = 0
    /\ inputs = NoInputs
    /\ pc = "idle"
    /\ FreshRun
    /\ \E n \in ExistingComments :
          /\ comments = [i \in 1..n |-> [id |-> i, body |-> unrelatedBody]]
          /\ nextId = n + 1
    /\ byteCount = NoValue
    /\ sizeText = NoValue

(***************************************************************************)
(* run() (src/main.ts)                                                     *)
(***************************************************************************)

(* the catch block of run(): the core.* calls it makes for a thrown value *)
catchLog(error) ==
    IF error.isBSE
    THEN <<<<"error", toUserMessage(error)>>,
           IF error.level = "fatal"
           THEN <<"setFailed", error.msg>>
           ELSE <<"warning", error.msg>>>>
    ELSE IF error.isError
    THEN <<<<"error", "Unexpected error">>, <<"setFailed", error.msg>>>>
    ELSE <<<<"setFailed", "An unknown error occurred">>>>

catchFailsAlways(error) == TRUE

catchFails(error) ==
    IF error.isBSE THEN error.level = "fatal" ELSE TRUE

(* an exception leaves the try block: the catch block runs, run() returns *)
Abort(error) ==
    /\ thrown' = error
    /\ log' = log \o catchLog(error)
    /\ failed' = (failed \/ catchFails(error))
    /\ pc' = "done"

AcquireConfig ==
    /\ pc = "getConfig"
    /\ LET r == getConfig(inputs)
       IN IF r.ok
          THEN /\ config' = r.value
               /\ steps' = Append(steps, "config")
               /\ pc' = "getPRContext"
               /\ UNCHANGED <<log, failed, thrown>>
          ELSE /\ Abort(r.error)
               /\ UNCHANGED <<config, steps>>
    /\ UNCHANGED <<runs, inputs, processingCommentId, stats, result,
                   commentBody, badgeSvg, outputs, finalPost, postFault, faults, comments,
                   nextId>>
    /\ UNCHANGED <<byteCount, sizeText>>

ResolveContextNoSkip ==
    /\ pc = "getPRContext"
    /\ IF ~inputs.token
       THEN /\ Abort(plainError("GITHUB_TOKEN is required"))
            /\ steps' = Append(steps, "context")
       ELSE /\ steps' = Append(steps, "context")
            /\ pc' = "postProcessing"
            /\ UNCHANGED <<log, failed, thrown>>
    /\ UNCHANGED <<runs, inputs, config, processingCommentId, stats, result,
                   commentBody, badgeSvg, outputs, finalPost, postFault, faults, comments,
                   nextId>>
    /\ UNCHANGED <<byteCount, sizeText>>

ResolveContext ==
    /\ pc = "getPRContext"
    /\ IF ~getPRContext(inputs)
       THEN /\ log' = Append(log, <<"info", "Not running in a pull request context, skipping...">>)
            /\ steps' = Append(steps, "context")
            /\ pc' = "done"
            /\ UNCHANGED <<failed, thrown>>
       ELSE IF ~inputs.token
       THEN /\ Abort(plainError("GITHUB_TOKEN is required"))
            /\ steps' = Append(steps, "context")
       ELSE /\ steps' = Append(steps, "context")
            /\ pc' = "postProcessing"
            /\ UNCHANGED <<log, failed, thrown>>
    /\ UNCHANGED <<runs, inputs, config, processingCommentId, stats, result,
                   commentBody, badgeSvg, outputs, finalPost, postFault, faults, comments,
                   nextId>>
    /\ UNCHANGED <<byteCount, sizeText>>

(* postProcessingComment resolved: the placeholder is on the thread *)
PostProcessingPosted ==
    /\ comments' = createComment(comments, nextId, formatProcessing)
    /\ processingCommentId' = nextId
    /\ nextId' = nextId + 1
    /\ pc' = "parseFile"
    /\ UNCHANGED <<log, failed, thrown, faults>>

(* postProcessingComment rejected: the catch of the inner try *)
PostProcessingFailedRethrow ==
    /\ \E e \in ApiFailures :
          Abort(handleApiError(e, "Failed to post processing comment"))
    /\ faults' = faults \cup {"createProcessingComment"}
    /\ UNCHANGED <<comments, processingCommentId, nextId>>

PostProcessingFailed ==
    /\ \E e \in ApiFailures :
          log' = Append(log, <<"warning", "Failed to post processing comment, continuing...">>)
    /\ faults' = faults \cup {"createProcessingComment"}
    /\ pc' = "parseFile"
    /\ UNCHANGED <<comments, processingCommentId, nextId, failed, thrown>>

PostProcessingComment ==
    /\ pc = "postProcessing"
    /\ steps' = Append(steps, "postProcessing")
    /\ (PostProcessingPosted \/ PostProcessingFailed)
    /\ UNCHANGED <<runs, inputs, config, stats, result, commentBody, badgeSvg,
                   outputs, finalPost, postFault>>
    /\ UNCHANGED <<byteCount, sizeText>>

ParseStatsFile ==
    /\ pc = "parseFile"
    /\ steps' = Append(steps, "parse")
    /\ LET r == parseFile(inputs.file)
       IN IF r.ok
          THEN /\ stats' = r.value
               /\ pc' = "analyze"
               /\ UNCHANGED <<log, failed, thrown>>
          ELSE /\ Abort(r.error)
               /\ UNCHANGED stats
    /\ UNCHANGED <<runs, inputs, config, processingCommentId, result,
                   commentBody, badgeSvg, outputs, finalPost, postFault, faults, comments,
                   nextId>>
    /\ UNCHANGED <<byteCount, sizeText>>

AnalyzeBundle ==
    /\ pc = "analyze"
    /\ result' = analyze(stats, config)
    /\ stats' = [stats EXCEPT !.assets = assetsAfterAnalyze(stats.assets)]
    /\ steps' = Append(steps, "analyze")
    /\ pc' = "format"
    /\ UNCHANGED <<runs, inputs, config, processingCommentId,
                   commentBody, badgeSvg, outputs, failed, log, thrown,
                   finalPost, postFault, faults, comments, nextId>>
    /\ UNCHANGED <<byteCount, sizeText>>

GenerateReport ==
    /\ pc = "format"
    /\ commentBody' = format(result, config)
    /\ badgeSvg' = generate(result)
    /\ result' = [result EXCEPT !.assets = assetsAfterReport(result.assets)]
    /\ steps' = Append(steps, "format")
    /\ pc' = "deleteProcessing"
    /\ UNCHANGED <<runs, inputs, config, processingCommentId, stats,
                   outputs, failed, log, thrown, finalPost, postFault, faults,
                   comments, nextId>>
    /\ UNCHANGED <<byteCount, sizeText>>

(* deleteProcessingComments: listComments rejected, caught inside *)
DeleteListFailed ==
    /\ \E e \in ApiFailures :
          log' = Append(log, <<"warning", "Failed to delete processing comments">>)
    /\ faults' = faults \cup {"listComments"}
    /\ UNCHANGED comments

(* deleteProcessingComments: the first k listed placeholders are deleted,  *)
(* then either all are gone or the next deleteComment is rejected          *)
DeleteListed ==
    LET ids == processingIds(listPage(comments))
    IN \E k \in 0..Len(ids) :
          /\ comments' = deleteComments(comments, {ids[i] : i \in 1..k})
          /\ IF k < Len(ids)
             THEN /\ \E e \in ApiFailures :
                        log' = Append(log, <<"warning", "Failed to delete processing comments">>)
                  /\ faults' = faults \cup {"deleteComment"}
             ELSE UNCHANGED <<log, faults>>

DeleteProcessingComments ==
    /\ pc = "deleteProcessing"
    /\ IF processingCommentId # 0
       THEN /\ steps' = Append(steps, "deleteProcessing")
            /\ (DeleteListFailed \/ DeleteListed)
       ELSE UNCHANGED <<steps, log, comments, faults>>
    /\ pc' = "postComment"
    /\ UNCHANGED <<runs, inputs, config, processingCommentId, stats, result,
                   commentBody, badgeSvg, outputs, failed, thrown, finalPost,
                   postFault, nextId>>
    /\ UNCHANGED <<byteCount, sizeText>>

(* result of commentManager.postComment(body) and its effect on the thread *)
postCommentListRejected(e) ==
    Thrown(handleApiError(handleApiError(e, "Failed to list comments"),
                          "Failed to post comment"))

postCommentRejected(e) == Thrown(handleApiError(e, "Failed to post comment"))

postComment(body) ==
    \/ \E e \in ApiFailures :
          /\ finalPost' = postCommentListRejected(e)
          /\ postFault' = [call |-> "listComments", error |-> e]
          /\ UNCHANGED <<comments, nextId>>
    \/ LET page == listPage(comments)
           existing == findComment(page)
       IN IF existing # 0
          THEN \/ /\ comments' = updateComment(comments, page[existing].id, body)
                  /\ finalPost' = Returned(page[existing].id)
                  /\ UNCHANGED <<nextId, postFault>>
               \/ \E e \in ApiFailures :
                     /\ finalPost' = postCommentRejected(e)
                     /\ postFault' = [call |-> "updateComment", error |-> e]
                     /\ UNCHANGED <<comments, nextId>>
          ELSE \/ /\ comments' = createComment(comments, nextId, body)
                  /\ finalPost' = Returned(nextId)
                  /\ nextId' = nextId + 1
                  /\ UNCHANGED postFault
               \/ \E e \in ApiFailures :
                     /\ finalPost' = postCommentRejected(e)
                     /\ postFault' = [call |-> "createComment", error |-> e]
                     /\ UNCHANGED <<comments, nextId>>

PostFinalCommentSwallow ==
    /\ pc = "postComment"
    /\ steps' = Append(steps, "postComment")
    /\ postComment(commentBody)
    /\ IF finalPost'.ok
       THEN log' = Append(log, <<"info", "Successfully posted bundle size report">>)
       ELSE log' = Append(log, <<"warning", "Failed to post comment">>)
    /\ pc' = "setOutputs"
    /\ UNCHANGED <<failed, thrown>>
    /\ UNCHANGED <<runs, inputs, config, processingCommentId, stats, result,
                   commentBody, badgeSvg, outputs, faults>>
    /\ UNCHANGED <<byteCount, sizeText>>

PostFinalComment ==
    /\ pc = "postComment"
    /\ steps' = Append(steps, "postComment")
    /\ postComment(commentBody)
    /\ IF finalPost'.ok
       THEN /\ log' = Append(log, <<"info", "Successfully posted bundle size report">>)
            /\ pc' = "setOutputs"
            /\ UNCHANGED <<failed, thrown>>
       ELSE Abort(finalPost'.error)
    /\ UNCHANGED <<runs, inputs, config, processingCommentId, stats, result,
                   commentBody, badgeSvg, outputs, faults>>
    /\ UNCHANGED <<byteCount, sizeText>>

(* Boolean.prototype.toString *)
booleanToString(b) == IF b THEN "true" ELSE "false"

SetOutputs ==
    /\ pc = "setOutputs"
    /\ outputs' = ("comment-body" :> commentBody)
                  @@ ("exceeded" :> booleanToString(result.threshold.anyExceeded))
                  @@ ("badge-svg" :> badgeSvg)
    /\ steps' = Append(steps, "setOutputs")
    /\ pc' = "checkThreshold"
    /\ UNCHANGED <<runs, inputs, config, processingCommentId, stats, result,
                   commentBody, badgeSvg, failed, log, thrown, finalPost,
                   postFault, faults, comments, nextId>>
    /\ UNCHANGED <<byteCount, sizeText>>

CheckThreshold ==
    /\ pc = "checkThreshold"
    /\ IF result.threshold.anyExceeded /\ config.failOnThresholdExceed
       THEN /\ failed' = TRUE
            /\ log' = Append(log, <<"setFailed", "Bundle size thresholds exceeded">>)
       ELSE UNCHANGED <<failed, log>>
    /\ steps' = Append(steps, "checkThreshold")
    /\ pc' = "done"
    /\ UNCHANGED <<runs, inputs, config, processingCommentId, stats, result,
                   commentBody, badgeSvg, outputs, thrown, finalPost,
                   postFault, faults, comments, nextId>>
    /\ UNCHANGED <<byteCount, sizeText>>

(* the workflow starts a run on the pull request *)
StartRun ==
    /\ pc = "idle"
    /\ runs < MaxRuns
    /\ runs' = runs + 1
    /\ inputs' \in RunInputs
    /\ pc' = "getConfig"
    /\ UNCHANGED <<runVars, comments, nextId>>
    /\ UNCHANGED <<byteCount, sizeText>>

(* run() has returned and the process exits: only the thread remains *)
ExitRun ==
    /\ pc = "done"
    /\ pc' = "idle"
    /\ inputs' = NoInputs
    /\ config' = NoValue
    /\ processingCommentId' = 0
    /\ stats' = NoValue
    /\ result' = NoValue
    /\ commentBody' = <<>>
    /\ badgeSvg' = NoValue
    /\ outputs' = <<>>
    /\ failed' = FALSE
    /\ log' = <<>>
    /\ steps' = <<>>
    /\ thrown' = NoError
    /\ finalPost' = NotCalled
    /\ postFault' = NoFault
    /\ faults' = {}
    /\ UNCHANGED <<runs, comments, nextId>>
    /\ UNCHANGED <<byteCount, sizeText>>

Next ==
    \/ StartRun
    \/ AcquireConfig
    \/ ResolveContext
    \/ PostProcessingComment
    \/ ParseStatsFile
    \/ AnalyzeBundle
    \/ GenerateReport
    \/ DeleteProcessingComments
    \/ PostFinalComment
    \/ SetOutputs
    \/ CheckThreshold
    \/ ExitRun

Spec == Init /\ [][Next]_vars

(***************************************************************************)
(* The analyzer on its own: any manifest of the pool, any thresholds       *)
(***************************************************************************)
AnalyzeAssetPool ==
    {rawAsset(NameAJs, sz, JsTrue) : sz \in 1..MaxSize}
    \cup {rawAsset(NameBJs, 1, JsTrue),
          rawAsset(NameCJs, 1, Absent),
          rawAsset(NameBJs, MaxSize, JsFalse),
          rawAsset(NameAJsMap, MaxSize, JsTrue),
          rawAsset(NameLicense, 1, Absent),
          rawAsset(NameMapJs, MaxSize, Absent),
          [name |-> NameCJs, size |-> MaxSize, emitted |-> JsTrue,
           isOverSizeLimit |-> JsTrue]}

ChunkSources ==
    {[assetsByChunkName |-> Missing, chunks |-> Missing,
      namedChunkGroups |-> Missing],
     [assetsByChunkName |->
          Present(<<[chunkName |-> ChunkMain, assets |-> <<NameAJs>>,
                     isArray |-> FALSE],
                    [chunkName |-> ChunkVendor, assets |-> <<NameBJs, NameAJs>>,
                     isArray |-> TRUE]>>),
      chunks |->
          Present(<<[names |-> <<ChunkMain, ChunkApp>>,
                     files |-> Present(<<NameAJs, NameCJs>>)],
                    [names |-> <<ChunkLazy>>, files |-> Missing]>>),
      namedChunkGroups |->
          Present(<<[groupName |-> ChunkMain, assets |-> <<NameAJs, NameBJs>>]>>)]}

AnalyzeManifests ==
    {[assets |-> a, assetsByChunkName |-> c.assetsByChunkName,
      chunks |-> c.chunks, namedChunkGroups |-> c.namedChunkGroups] :
        a \in SeqsUpTo(AnalyzeAssetPool, MaxAssets), c \in ChunkSources}

AnalyzeConfigs ==
    [bundleSizeThreshold : {1, MaxSize},
     totalSizeThreshold : {MaxSize, 2 * MaxSize},
     failOnThresholdExceed : {TRUE}]

InitAnalyze ==
    /\ runs = 1
    /\ inputs = NoInputs
    /\ pc = "analyze"
    /\ config \in AnalyzeConfigs
    /\ processingCommentId = 0
    /\ stats \in AnalyzeManifests
    /\ result = NoValue
    /\ commentBody = <<>>
    /\ badgeSvg = NoValue
    /\ outputs = <<>>
    /\ failed = FALSE
    /\ log = <<>>
    /\ steps = <<>>
    /\ thrown = NoError
    /\ finalPost = NotCalled
    /\ postFault = NoFault
    /\ faults = {}
    /\ comments = <<>>
    /\ nextId = 1
    /\ byteCount = NoValue
    /\ sizeText = NoValue

NextAnalyze == AnalyzeBundle

SpecAnalyze == InitAnalyze /\ [][NextAnalyze]_vars

(***************************************************************************)
(* The chunk mapping on its own: any combination of the three sources      *)
(***************************************************************************)
ChunkAssetLists == SeqsUpTo({NameAJs, NameBJs}, MaxChunkList)

(* a value of assetsByChunkName: one asset name, or a list of them *)
ByNameValues ==
    {[assets |-> <<n>>, isArray |-> FALSE] : n \in {NameAJs, NameBJs}}
    \cup {[assets |-> l, isArray |-> TRUE] : l \in ChunkAssetLists}

byNameEntry(chunkName, v) ==
    [chunkName |-> chunkName, assets |-> v.assets, isArray |-> v.isArray]

AssetsByChunkNameInputs ==
    {Missing, Present(<<>>)}
    \cup {Present(<<byNameEntry(ChunkMain, v)>>) : v \in ByNameValues}
    \cup {Present(<<byNameEntry(ChunkMain, v),
                    byNameEntry(ChunkVendor, w)>>) :
             v \in ByNameValues,
             w \in {[assets |-> <<NameAJs>>, isArray |-> FALSE],
                    [assets |-> <<NameBJs, NameAJs>>, isArray |-> TRUE]}}

ChunksInputs ==
    {Missing}
    \cup {Present(<<[names |-> ns, files |-> f]>>) :
             ns \in {<<ChunkVendor, ChunkMain>>, <<ChunkApp, ChunkApp>>},
             f \in {Missing} \cup {Present(l) : l \in ChunkAssetLists}}

NamedChunkGroupsInputs ==
    {Missing}
    \cup {Present(<<[groupName |-> g, assets |-> l]>>) :
             g \in {ChunkMain, ChunkLazy}, l \in ChunkAssetLists}

ChunkManifests ==
    {[assets |-> <<rawAsset(NameAJs, 2, JsTrue), rawAsset(NameBJs, 1, JsTrue),
                   rawAsset(NameCJs, 1, Absent)>>,
      assetsByChunkName |-> a, chunks |-> c, namedChunkGroups |-> g] :
        a \in AssetsByChunkNameInputs, c \in ChunksInputs,
        g \in NamedChunkGroupsInputs}

InitChunks ==
    /\ runs = 1
    /\ inputs = NoInputs
    /\ pc = "analyze"
    /\ config = [bundleSizeThreshold |-> 1, totalSizeThreshold |-> 2,
                 failOnThresholdExceed |-> FALSE]
    /\ processingCommentId = 0
    /\ stats \in ChunkManifests
    /\ result = NoValue
    /\ commentBody = <<>>
    /\ badgeSvg = NoValue
    /\ outputs = <<>>
    /\ failed = FALSE
    /\ log = <<>>
    /\ steps = <<>>
    /\ thrown = NoError
    /\ finalPost = NotCalled
    /\ postFault = NoFault
    /\ faults = {}
    /\ comments = <<>>
    /\ nextId = 1
    /\ byteCount = NoValue
    /\ sizeText = NoValue

NextChunks == AnalyzeBundle

SpecChunks == InitChunks /\ [][NextChunks]_vars

(***************************************************************************)
(* The stats parser on its own: any file at the stats path                 *)
(***************************************************************************)
(* an asset entry that carries neither name nor size *)
bareAsset == [emitted |-> JsTrue]

ParseManifests ==
    RunManifests
    \cup {manifest(<<bareAsset>>),
          manifest(<<rawAsset(NameAJs, 1, JsTrue), bareAsset>>)}

(* values JSON.parse can return *)
JsonValues ==
    {jsonValue(k, FALSE, FALSE, NoValue) :
        k \in {"null", "number", "string", "boolean", "array", "object"}}
    \cup {jsonValue("object", TRUE, FALSE, NoValue)}
    \cup {jsonValue("object", TRUE, TRUE, m) : m \in ParseManifests}

ParseContents ==
    {[validJson |-> FALSE, data |-> NoData]}
    \cup {[validJson |-> TRUE, data |-> v] : v \in JsonValues}

ParseFiles ==
    {fileOf(FALSE, 0, FALSE, FALSE, NoData)}
    \cup {[exists |-> TRUE, size |-> sz, readable |-> r, content |-> c] :
             sz \in {10, MAX_FILE_SIZE, MAX_FILE_SIZE + 1},
             r \in BOOLEAN, c \in ParseContents}

InitParse ==
    /\ runs = 1
    /\ inputs \in [bundleSizeThreshold : {<<"1">>},
                   totalSizeThreshold : {<<"2">>},
                   failOnThresholdExceed : {FALSE},
                   eventName : {"pull_request"},
                   hasPullRequest : {TRUE},
                   token : {TRUE},
                   file : ParseFiles]
    /\ pc = "parseFile"
    /\ config = [bundleSizeThreshold |-> 1, totalSizeThreshold |-> 2,
                 failOnThresholdExceed |-> FALSE]
    /\ processingCommentId = 0
    /\ stats = NoValue
    /\ result = NoValue
    /\ commentBody = <<>>
    /\ badgeSvg = NoValue
    /\ outputs = <<>>
    /\ failed = FALSE
    /\ log = <<>>
    /\ steps = <<>>
    /\ thrown = NoError
    /\ finalPost = NotCalled
    /\ postFault = NoFault
    /\ faults = {}
    /\ comments = <<>>
    /\ nextId = 1
    /\ byteCount = NoValue
    /\ sizeText = NoValue

NextParse == ParseStatsFile

SpecParse == InitParse /\ [][NextParse]_vars

(***************************************************************************)
(* One run on a pull request with a readable manifest, any threshold       *)
(* inputs                                                                  *)
(***************************************************************************)
BundleThresholdTexts ==
    {<<>>, <<"x">>, <<"0">>, <<"-", "1">>, <<"1">>, <<"1", "x">>,
     <<"1", ".", "5">>}

TotalThresholdTexts == {<<"2">>, <<"x">>, <<"2", "M", "B">>}

ConfigInputs ==
    [bundleSizeThreshold : BundleThresholdTexts,
     totalSizeThreshold : TotalThresholdTexts,
     failOnThresholdExceed : BOOLEAN,
     eventName : {"pull_request"},
     hasPullRequest : {TRUE},
     token : {TRUE},
     file : {fileOf(TRUE, 10, TRUE, TRUE,
                    jsonValue("object", TRUE, TRUE,
                              manifest(<<rawAsset(NameBJs, 1, Absent),
                                         rawAsset(NameAJs, 2, JsTrue)>>)))}]

InitConfig ==
    /\ runs = 1
    /\ inputs \in ConfigInputs
    /\ pc = "getConfig"
    /\ FreshRun
    /\ comments = <<>>
    /\ nextId = 1
    /\ byteCount = NoValue
    /\ sizeText = NoValue

NextConfig ==
    \/ AcquireConfig
    \/ ResolveContext
    \/ PostProcessingComment
    \/ ParseStatsFile
    \/ AnalyzeBundle
    \/ GenerateReport
    \/ DeleteProcessingComments
    \/ PostFinalComment
    \/ SetOutputs
    \/ CheckThreshold

SpecConfig == InitConfig /\ [][NextConfig]_vars

(***************************************************************************)
(* Analysis and formatting of manifests with many assets and with names    *)
(* that hold markdown-special characters                                   *)
(***************************************************************************)
(* f1.js, f2.js, ... *)
FileName(i) == <<"f", Digits[i + 1], ".", "j", "s">>

NameSpecial == <<"a", "|", "<", ">", "\"", "'", ".", "j", "s">>
ChunkSpecial == <<"v", "|", "1">>

FormatManifests ==
    {manifest([i \in 1..k |-> rawAsset(FileName(i), sz[i], JsTrue)]) :
        k \in 0..MaxFormatAssets, sz \in [1..MaxFormatAssets -> {1, 2}]}
    \cup {[assets |-> <<rawAsset(NameAJs, 1, JsTrue),
                        rawAsset(NameSpecial, 2, JsTrue)>>,
           assetsByChunkName |-> c, chunks |-> Missing,
           namedChunkGroups |-> Missing] :
             c \in {Missing,
                    Present(<<[chunkName |-> ChunkMain,
                               assets |-> <<NameSpecial>>, isArray |-> FALSE]>>),
                    Present(<<[chunkName |-> ChunkSpecial,
                               assets |-> <<NameSpecial, NameAJs>>,
                               isArray |-> TRUE]>>)}}

FormatConfigs ==
    [bundleSizeThreshold : {1},
     totalSizeThreshold : {2, 2 * MaxFormatAssets},
     failOnThresholdExceed : {TRUE}]

InitFormat ==
    /\ runs = 1
    /\ inputs = NoInputs
    /\ pc = "analyze"
    /\ config \in FormatConfigs
    /\ processingCommentId = 0
    /\ stats \in FormatManifests
    /\ result = NoValue
    /\ commentBody = <<>>
    /\ badgeSvg = NoValue
    /\ outputs = <<>>
    /\ failed = FALSE
    /\ log = <<>>
    /\ steps = <<>>
    /\ thrown = NoError
    /\ finalPost = NotCalled
    /\ postFault = NoFault
    /\ faults = {}
    /\ comments = <<>>
    /\ nextId = 1
    /\ byteCount = NoValue
    /\ sizeText = NoValue

NextFormat == AnalyzeBundle \/ GenerateReport

SpecFormat == InitFormat /\ [][NextFormat]_vars

(***************************************************************************)
(* Analysis and formatting of manifests that hold more files than the      *)
(* file table lists                                                        *)
(***************************************************************************)
(* f1.js, f2.js, ..., f22.js *)
ListName(i) == <<"f">> \o toDecimal(i) \o <<".", "j", "s">>

(* all sizes equal, sizes growing with the manifest position, sizes mixed *)
ListSizePatterns == {"equal", "growing", "mixed"}

listSize(pattern, i) ==
    CASE pattern = "equal" -> 1
      [] pattern = "growing" -> i
      [] OTHER -> (i % 3) + 1

ListManifests ==
    {manifest([i \in 1..n |-> rawAsset(ListName(i), listSize(pattern, i), JsTrue)]) :
        n \in 0..MaxListAssets, pattern \in ListSizePatterns}

ListConfigs ==
    [bundleSizeThreshold : {1, 2},
     totalSizeThreshold : {2 * MaxListAssets},
     failOnThresholdExceed : {TRUE}]

InitFileList ==
    /\ runs = 1
    /\ inputs = NoInputs
    /\ pc = "analyze"
    /\ config \in ListConfigs
    /\ processingCommentId = 0
    /\ stats \in ListManifests
    /\ result = NoValue
    /\ commentBody = <<>>
    /\ badgeSvg = NoValue
    /\ outputs = <<>>
    /\ failed = FALSE
    /\ log = <<>>
    /\ steps = <<>>
    /\ thrown = NoError
    /\ finalPost = NotCalled
    /\ postFault = NoFault
    /\ faults = {}
    /\ comments = <<>>
    /\ nextId = 1
    /\ byteCount = NoValue
    /\ sizeText = NoValue

NextFileList == AnalyzeBundle \/ GenerateReport

SpecFileList == InitFileList /\ [][NextFileList]_vars

(***************************************************************************)
(* The size formatter on its own: any byte count of the pool               *)
(***************************************************************************)
(* most significant base-1024 digit, and the digits below it: the values   *)
(* at and next to the precision steps 10 and 100 and to the rounding ties  *)
LeadingDigits == {1, 9, 10, 99, 100, 1023}
LowerDigits == {0, 511, 512, 972, 973, 1023}

Significands ==
    {<<l>> : l \in LeadingDigits}
    \cup {<<d, l>> : d \in LowerDigits, l \in LeadingDigits}
    \cup {<<e, d, l>> : e \in {0, 1023}, d \in LowerDigits, l \in LeadingDigits}

(* significand * 1024^shift, with either sign, and zero *)
ByteCounts ==
    {[negative |-> FALSE, magnitude |-> <<>>]}
    \cup {[negative |-> neg, magnitude |-> [j \in 1..shift |-> 0] \o m] :
             neg \in BOOLEAN, shift \in 0..MaxShift, m \in Significands}

InitFileSize ==
    /\ runs = 1
    /\ inputs = NoInputs
    /\ pc = "formatFileSize"
    /\ FreshRun
    /\ comments = <<>>
    /\ nextId = 1
    /\ byteCount \in ByteCounts
    /\ sizeText = NoValue

FormatFileSize ==
    /\ pc = "formatFileSize"
    /\ sizeText' = formatFileSize(byteCount)
    /\ pc' = "done"
    /\ UNCHANGED <<runs, inputs, runVars, comments, nextId, byteCount>>

NextFileSize == FormatFileSize

SpecFileSize == InitFileSize /\ [][NextFileSize]_vars

(***************************************************************************)
(* Analysis and formatting of a manifest of one file with any name over    *)
(* the characters escapeMarkdown replaces, the backslash and a letter      *)
(***************************************************************************)
NameChars == {"a", "\\", "|", "<", ">", "\"", "'"}

EscapeNames == SeqsUpTo(NameChars, MaxNameLen)

EscapeManifests == {manifest(<<rawAsset(name, 1, JsTrue)>>) : name \in EscapeNames}

InitEscape ==
    /\ runs = 1
    /\ inputs = NoInputs
    /\ pc = "analyze"
    /\ config = [bundleSizeThreshold |-> 1, totalSizeThreshold |-> 2,
                 failOnThresholdExceed |-> TRUE]
    /\ processingCommentId = 0
    /\ stats \in EscapeManifests
    /\ result = NoValue
    /\ commentBody = <<>>
    /\ badgeSvg = NoValue
    /\ outputs = <<>>
    /\ failed = FALSE
    /\ log = <<>>
    /\ steps = <<>>
    /\ thrown = NoError
    /\ finalPost = NotCalled
    /\ postFault = NoFault
    /\ faults = {}
    /\ comments = <<>>
    /\ nextId = 1
    /\ byteCount = NoValue
    /\ sizeText = NoValue

NextEscape == AnalyzeBundle \/ GenerateReport

SpecEscape == InitEscape /\ [][NextEscape]_vars

(***************************************************************************)
(* Runs on one pull request with manifests whose names hold the text of    *)
(* the processing identifier                                               *)
(***************************************************************************)
(* a.js alone; a.js in a chunk named like the processing identifier; a     *)
(* file named like the processing identifier                               *)
MarkerManifests ==
    {manifest(<<rawAsset(NameAJs, 1, JsTrue)>>),
     [assets |-> <<rawAsset(NameAJs, 1, JsTrue)>>,
      assetsByChunkName |->
          Present(<<[chunkName |-> identifierText(PROCESSING_IDENTIFIER),
                     assets |-> <<NameAJs>>, isArray |-> FALSE]>>),
      chunks |-> Missing, namedChunkGroups |-> Missing],
     manifest(<<rawAsset(identifierText(PROCESSING_IDENTIFIER), 1, JsTrue)>>)}

MarkerRunInputs ==
    [bundleSizeThreshold : {<<"1">>},
     totalSizeThreshold : {<<"2">>},
     failOnThresholdExceed : {FALSE},
     eventName : {"pull_request"},
     hasPullRequest : {TRUE},
     token : {TRUE},
     file : {fileOf(TRUE, 10, TRUE, TRUE, jsonValue("object", TRUE, TRUE, m)) :
                m \in MarkerManifests}]

InitMarkers ==
    /\ runs = 0
    /\ inputs = NoInputs
    /\ pc = "idle"
    /\ FreshRun
    /\ comments = <<>>
    /\ nextId = 1
    /\ byteCount = NoValue
    /\ sizeText = NoValue

(* the workflow starts the action on the pull request *)
StartMarkerRun ==
    /\ pc = "idle"
    /\ runs < MaxRuns
    /\ runs' = runs + 1
    /\ inputs' \in MarkerRunInputs
    /\ pc' = "getConfig"
    /\ UNCHANGED <<runVars, comments, nextId>>
    /\ UNCHANGED <<byteCount, sizeText>>

NextMarkers ==
    \/ StartMarkerRun
    \/ AcquireConfig
    \/ ResolveContext
    \/ PostProcessingComment
    \/ ParseStatsFile
    \/ AnalyzeBundle
    \/ GenerateReport
    \/ DeleteProcessingComments
    \/ PostFinalComment
    \/ SetOutputs
    \/ CheckThreshold
    \/ ExitRun

SpecMarkers == InitMarkers /\ [][NextMarkers]_vars

(***************************************************************************)
(* Properties                                                              *)
(***************************************************************************)
Analyzed == includes(steps, "analyze")
RunEnded == pc = "done"
Logged(level, msg) == includes(log, <<level, msg>>)
HasWarning == \E i \in 1..Len(log) : log[i][1] = "warning"

PostAttempted == includes(steps, "postComment")
PostFailed == PostAttempted /\ ~finalPost.ok
OutputsSet == DOMAIN outputs # {}
ThresholdGate ==
    Analyzed /\ result.threshold.anyExceeded /\ config.failOnThresholdExceed

(* the failure of postComment is classified fatal by handleApiError: the   *)
(* create or update call itself was rejected with an Error whose message   *)
(* includes 'Resource not accessible' and not 'rate limit'                 *)
PostFailureIsFatal ==
    /\ postFault.call \in {"createComment", "updateComment"}
    /\ postFault.error.isError
    /\ postFault.error.notAccessible
    /\ ~postFault.error.rateLimit

(* C1 as stated: if posting the final report fails for any reason          *)
(* (list-comments lookup included) the run ends with failed status         *)
C1_PostFailureFailsRun ==
    (RunEnded /\ PostFailed) => failed

(* C1 amended: a failure of posting the final report reaches the error     *)
(* handler of run: it is logged with core.error and no output is set; the  *)
(* run ends failed only when the failure is classified fatal, otherwise    *)
(* the failure is logged as a warning and the run does not signal failure  *)
C1_PostFailureHandled ==
    (RunEnded /\ PostFailed) =>
        /\ thrown = finalPost.error
        /\ ~OutputsSet
        /\ \E i \in 1..Len(log) : log[i][1] = "error"
        /\ failed <=> PostFailureIsFatal
        /\ ~failed => Logged("warning", "Failed to post comment")

C1_Witness ==
    /\ RunEnded
    /\ PostFailed
    /\ postFault.call = "updateComment"
    /\ failed

(* C2: a run whose analysis found anyExceeded while fail-on-threshold-     *)
(* exceed is true ends with failed status, whatever comment posting does   *)
C2_ThresholdAlwaysFails ==
    (RunEnded /\ ThresholdGate) => failed

(* a fatal error: a BundleStatsError of level fatal, or an invalid         *)
(* configuration / a missing token                                         *)
FatalErrorOccurred ==
    \/ thrown.isBSE /\ thrown.level = "fatal"
    \/ thrown.msg \in {"bundle-size-threshold must be a positive number",
                       "total-size-threshold must be a positive number",
                       "GITHUB_TOKEN is required"}

(* C3: a run signals failure only if a fatal error occurred or the         *)
(* analysis found anyExceeded with fail-on-threshold-exceed true; a run    *)
(* with no error and without that never signals failure, whatever          *)
(* warnings were logged                                                    *)
C3_FailureOnlyIf ==
    /\ failed => (FatalErrorOccurred \/ ThresholdGate)
    /\ (thrown = NoError /\ ~ThresholdGate) => ~failed

C3_Witness ==
    /\ RunEnded
    /\ thrown = NoError
    /\ HasWarning
    /\ Analyzed
    /\ result.threshold.anyExceeded
    /\ ~config.failOnThresholdExceed
    /\ ~failed

(* the outcome of the run in which the best-effort steps succeed, for the  *)
(* same inputs and the same result of posting the final report             *)
ReferenceOutcome(in, posted) ==
    LET c == getConfig(in)
        f == parseFile(in.file)
        r == analyze(f.value, c.value)
        none == [outputs |-> <<>>, failed |-> FALSE]
    IN IF ~c.ok THEN [none EXCEPT !.failed = TRUE]
       ELSE IF ~getPRContext(in) THEN none
       ELSE IF ~in.token THEN [none EXCEPT !.failed = TRUE]
       ELSE IF ~f.ok THEN [none EXCEPT !.failed = TRUE]
       ELSE IF ~posted.ok
       THEN [none EXCEPT !.failed = posted.error.level = "fatal"]
       ELSE [outputs |-> ("comment-body" :> format(r, c.value))
                         @@ ("exceeded" :>
                               IF r.threshold.anyExceeded THEN "true" ELSE "false")
                         @@ ("badge-svg" :> generate(r)),
             failed |-> r.threshold.anyExceeded /\ in.failOnThresholdExceed]

SameOutputs(a, b) ==
    /\ DOMAIN a = DOMAIN b
    /\ \A k \in DOMAIN a : a[k] = b[k]

(* C4: a failure while posting or removing the processing placeholder is   *)
(* caught and logged and never aborts the run: the manifest is still       *)
(* parsed and analyzed, the final report posted, and the run ends with     *)
(* the outputs and status of the run in which those steps succeeded        *)
C4_BestEffortNeverAborts ==
    (RunEnded /\ faults # {}) =>
        /\ HasWarning
        /\ includes(steps, "parse")
        /\ parseFile(inputs.file).ok => (Analyzed /\ PostAttempted)
        /\ SameOutputs(outputs, ReferenceOutcome(inputs, finalPost).outputs)
        /\ failed = ReferenceOutcome(inputs, finalPost).failed

C4_Witness ==
    /\ RunEnded
    /\ "createProcessingComment" \in faults
    /\ OutputsSet
    /\ failed

StepOrder ==
    <<"config", "context", "postProcessing", "parse", "analyze", "format",
      "deleteProcessing", "postComment", "setOutputs", "checkThreshold">>

StepOrderNoDelete ==
    <<"config", "context", "postProcessing", "parse", "analyze", "format",
      "postComment", "setOutputs", "checkThreshold">>

IsPrefix(s, t) == Len(s) <= Len(t) /\ s = SubSeq(t, 1, Len(s))

C6_PlaceholderRemovalAttempted ==
    (RunEnded /\ processingCommentId # 0) => includes(steps, "deleteProcessing")

ReportComments ==
    {i \in 1..Len(comments) : bodyIncludes(comments[i].body, COMMENT_IDENTIFIER)}

(* C7: after any sequence of sequential runs on one pull request, with any *)
(* number of unrelated comments present, at most one comment carries the   *)
(* report marker                                                           *)
C7_AtMostOneReport ==
    Cardinality(ReportComments) <= 1

(* C8: the result of analyze satisfies                                     *)
(* anyExceeded = (individualExceeded is non-empty) or totalExceeded        *)
C8_AnyExceededInvariant ==
    Analyzed =>
        (result.threshold.anyExceeded
            <=> (result.threshold.individualExceeded # <<>>
                    \/ result.threshold.totalExceeded))

C8_Witness ==
    /\ Analyzed
    /\ result.threshold.anyExceeded
    /\ result.threshold.individualExceeded = <<>>
    /\ result.threshold.totalExceeded

(* the claim's own reading of the filter *)
HasSuffix(s, suffix) ==
    \E k \in 0..Len(s) : SubSeq(s, k + 1, Len(s)) = suffix

Excluded(asset) ==
    \/ HasSuffix(asset.name, MAP_SUFFIX)
    \/ HasSuffix(asset.name, LICENSE_SUFFIX)
    \/ asset.emitted = JsFalse

ReportableIndexes == {i \in 1..Len(stats.assets) : ~Excluded(stats.assets[i])}

RECURSIVE SumOver(_, _)
SumOver(assets, idx) ==
    IF idx = {} THEN 0
    ELSE LET i == CHOOSE x \in idx : TRUE
         IN assets[i].size + SumOver(assets, idx \ {i})

(* C9: an asset named *.map or *.LICENSE.txt, or with emitted false, is    *)
(* not in result.assets, not counted in fileCount and adds nothing to      *)
(* totalSize; every other asset appears exactly once                       *)
C9_Filtering ==
    Analyzed =>
        /\ \A n \in {a.name : a \in Range(stats.assets) \cup Range(result.assets)} :
           \A sz \in {a.size : a \in Range(stats.assets) \cup Range(result.assets)} :
              Cardinality({i \in 1..Len(result.assets) :
                              /\ result.assets[i].name = n
                              /\ result.assets[i].size = sz})
              = Cardinality({i \in ReportableIndexes :
                                /\ stats.assets[i].name = n
                                /\ stats.assets[i].size = sz})
        /\ result.summary.fileCount = Cardinality(ReportableIndexes)
        /\ result.summary.totalSize = SumOver(stats.assets, ReportableIndexes)

C9_Witness ==
    /\ Analyzed
    /\ \E i, j, k \in 1..Len(stats.assets) :
          /\ HasSuffix(stats.assets[i].name, MAP_SUFFIX)
          /\ stats.assets[j].emitted = JsFalse
          /\ stats.assets[k].emitted = Absent
          /\ ~Excluded(stats.assets[k])
    /\ result.summary.fileCount = 1

(* C10: result.assets is sorted by size descending, and assets of equal    *)
(* size keep the relative order they had in the manifest                   *)
NamesOfSize(assets, sz) ==
    LET pick(a) == a.size = sz
        sel == SelectSeq(assets, pick)
    IN [i \in 1..Len(sel) |-> sel[i].name]

NotExcluded(asset) == ~Excluded(asset)

C10_SortedStable ==
    Analyzed =>
        /\ \A i, j \in 1..Len(result.assets) :
              i < j => result.assets[i].size >= result.assets[j].size
        /\ \A sz \in {a.size : a \in Range(stats.assets)} :
              NamesOfSize(result.assets, sz)
                 = NamesOfSize(SelectSeq(stats.assets, NotExcluded), sz)

C10_Witness ==
    /\ Analyzed
    /\ Len(result.assets) = 3
    /\ stats.assets[1].size < stats.assets[3].size
    /\ stats.assets[1].size = stats.assets[2].size
    /\ stats.assets[1].name # stats.assets[2].name
    /\ Len(stats.assets) = 3

(* C13: a reportable asset is marked exceeded, and its name listed in      *)
(* individualExceeded, exactly when its size is strictly greater than      *)
(* bundleSizeThreshold; a size equal to the threshold does not exceed.     *)
C13_StrictPerAsset ==
    Analyzed =>
        LET over(a) == a.size > config.bundleSizeThreshold
            overAssets == SelectSeq(result.assets, over)
        IN /\ \A i \in 1..Len(result.assets) :
                 result.assets[i].exceeded <=> over(result.assets[i])
           /\ result.threshold.individualExceeded
                 = [i \in 1..Len(overAssets) |-> overAssets[i].name]
           /\ \A k \in ReportableIndexes :
                 over(stats.assets[k])
                    => includes(result.threshold.individualExceeded,
                                stats.assets[k].name)
           /\ \A i \in 1..Len(result.threshold.individualExceeded) :
                 \E k \in ReportableIndexes :
                    /\ stats.assets[k].name
                          = result.threshold.individualExceeded[i]
                    /\ over(stats.assets[k])

C13_Witness ==
    /\ Analyzed
    /\ \E i, j \in 1..Len(result.assets) :
          /\ result.assets[i].size = config.bundleSizeThreshold
          /\ ~result.assets[i].exceeded
          /\ ~includes(result.threshold.individualExceeded,
                       result.assets[i].name)
          /\ result.assets[j].size = config.bundleSizeThreshold + 1
          /\ result.assets[j].exceeded
          /\ includes(result.threshold.individualExceeded,
                      result.assets[j].name)

(* C14: summary.totalSize is the sum of the sizes of the reportable        *)
(* assets, and threshold.totalExceeded holds exactly when that sum is      *)
(* strictly greater than totalSizeThreshold, whatever the individual       *)
(* assets do.                                                              *)
C14_StrictTotal ==
    Analyzed =>
        LET sum == SumOver(stats.assets, ReportableIndexes)
        IN /\ result.summary.totalSize = sum
           /\ result.threshold.totalExceeded
                 <=> (sum > config.totalSizeThreshold)

C14_Witness ==
    /\ Analyzed
    /\ Len(stats.assets) > Len(result.assets)
    /\ result.summary.totalSize = config.totalSizeThreshold + 1
    /\ result.threshold.totalExceeded
    /\ result.threshold.individualExceeded = <<>>
    /\ \A i \in 1..Len(result.assets) : ~result.assets[i].exceeded

(***************************************************************************)
(* Chunk attribution                                                       *)
(***************************************************************************)
RECURSIVE Flatten(_)
Flatten(ss) == IF ss = <<>> THEN <<>> ELSE Head(ss) \o Flatten(Tail(ss))

Occurrences(list, x) == Cardinality({j \in 1..Len(list) : list[j] = x})

Repeat(x, n) == [j \in 1..n |-> x]

(* the elements of s, each kept at its first position only *)
FirstOccurrences(s) ==
    LET first(i) == \A j \in 1..(i - 1) : s[j] # s[i]
        idx == {i \in 1..Len(s) : first(i)}
        nth(k) == CHOOSE i \in idx : Cardinality({j \in idx : j < i}) = k - 1
    IN [k \in 1..Cardinality(idx) |-> s[nth(k)]]

NoRepeats(s) == \A i, j \in 1..Len(s) : s[i] = s[j] => i = j

(* the names each source gives to the asset called n, in discovery order *)
FromAssetsByChunkName(m, n) ==
    IF ~m.assetsByChunkName.present THEN <<>>
    ELSE LET es == m.assetsByChunkName.items
             listed(e) == IF e.isArray THEN e.assets ELSE <<e.assets[1]>>
         IN Flatten([i \in 1..Len(es) |->
                Repeat(es[i].chunkName, Occurrences(listed(es[i]), n))])

FromChunks(m, n) ==
    IF ~m.chunks.present THEN <<>>
    ELSE LET cs == m.chunks.items
         IN Flatten([i \in 1..Len(cs) |->
                IF cs[i].files.present
                THEN Flatten(Repeat(cs[i].names,
                                    Occurrences(cs[i].files.items, n)))
                ELSE <<>>])

FromNamedChunkGroups(m, n) ==
    IF ~m.namedChunkGroups.present THEN <<>>
    ELSE LET gs == m.namedChunkGroups.items
         IN Flatten([i \in 1..Len(gs) |->
                Repeat(gs[i].groupName, Occurrences(gs[i].assets, n))])

(* C11: for every manifest, the chunkNames of every analyzed asset holds   *)
(* each chunk or group name at most once.                                  *)
C11_NoDuplicateChunkNames ==
    Analyzed =>
        \A i \in 1..Len(result.assets) : NoRepeats(result.assets[i].chunkNames)

(* C12: the chunkNames of an asset are the names of assetsByChunkName,     *)
(* then the names of the chunks whose files list it that are not yet       *)
(* there, then the names of the groups listing it that are not yet there,  *)
(* each in first-discovered order; an asset no source names has none.      *)
C12_ChunkNamesInSourceOrder ==
    Analyzed =>
        \A i \in 1..Len(result.assets) :
            LET x == result.assets[i]
                first == FromAssetsByChunkName(stats, x.name)
                later == FirstOccurrences(FromChunks(stats, x.name)
                                          \o FromNamedChunkGroups(stats, x.name))
                isNew(c) == ~includes(first, c)
            IN /\ x.chunkNames = first \o SelectSeq(later, isNew)
               /\ (first = <<>> /\ later = <<>>) => x.chunkNames = <<>>

C12_Witness ==
    /\ Analyzed
    /\ stats.assetsByChunkName.present /\ stats.chunks.present
    /\ stats.namedChunkGroups.present
    /\ \E i, j \in 1..Len(result.assets) :
          /\ result.assets[i].chunkNames = <<ChunkMain, ChunkVendor, ChunkLazy>>
          /\ FromChunks(stats, result.assets[i].name)
                 = <<ChunkVendor, ChunkMain>>
          /\ result.assets[j].chunkNames = <<>>

(***************************************************************************)
(* Stats parser                                                            *)
(***************************************************************************)
ParseReturned == includes(steps, "parse")

FiftyMiB == 52428800

(* the decoded value is an object with an array-valued assets field *)
ObjectWithAssetsArray(content) ==
    /\ content.validJson
    /\ content.data.kind = "object"
    /\ content.data.hasAssets
    /\ content.data.assetsIsArray

(* the first check of parseFile the file does not pass *)
FirstFailedCheck(file) ==
    CASE ~file.exists -> "FILE_NOT_FOUND"
      [] file.exists /\ file.size > FiftyMiB -> "FILE_TOO_LARGE"
      [] file.exists /\ file.size <= FiftyMiB /\ ~file.readable
            -> "FILE_READ_ERROR"
      [] file.exists /\ file.size <= FiftyMiB /\ file.readable
            /\ ~file.content.validJson -> "JSON_PARSE_ERROR"
      [] file.exists /\ file.size <= FiftyMiB /\ file.readable
            /\ file.content.validJson
            /\ ~ObjectWithAssetsArray(file.content) -> "INVALID_STATS_FORMAT"
      [] OTHER -> "none"

ParseCalled ==
    /\ ParseReturned
    /\ inputs.file.exists
    /\ inputs.file.size <= FiftyMiB
    /\ inputs.file.readable

IsPositiveInteger(text) ==
    /\ text # <<>>
    /\ \A i \in 1..Len(text) : isDigit(text[i])
    /\ \E i \in 1..Len(text) : text[i] # "0"

(* a threshold input that was given and is not a positive integer *)
InvalidThresholdInput(text) == text # <<>> /\ ~IsPositiveInteger(text)

ConfigAcquired == pc \notin {"idle", "getConfig"}

(* C17: when bundle-size-threshold or total-size-threshold is non-numeric  *)
(* or not a positive integer, the run ends failed before analysis: no      *)
(* comment is posted, the manifest is not read and no output is set.       *)
C17_InvalidThresholdFails ==
    (/\ ConfigAcquired
     /\ \/ InvalidThresholdInput(inputs.bundleSizeThreshold)
        \/ InvalidThresholdInput(inputs.totalSizeThreshold))
    => /\ pc = "done"
       /\ failed
       /\ steps = <<>>
       /\ stats = NoValue
       /\ outputs = <<>>
       /\ comments = <<>>
       /\ processingCommentId = 0

(* the event is not a pull request event, or carries no pull request *)
NotPullRequest(in) ==
    \/ in.eventName \notin {"pull_request", "pull_request_target"}
    \/ ~in.hasPullRequest

Formatted == includes(steps, "format")

PartsOfKind(body, kind) == {i \in 1..Len(body) : body[i].kind = kind}

(* a pipe not behind a backslash, an angle bracket or a quote *)
HasRawSpecial(text) ==
    \E i \in 1..Len(text) :
        \/ text[i] \in {"<", ">", "\"", "'"}
        \/ text[i] = "|" /\ (i = 1 \/ text[i - 1] # "\\")

(* the cells and lines of the document that embed manifest strings *)
EmbeddedTexts(body) ==
    UNION {{body[i].top[k].file : k \in 1..Len(body[i].top)}
           \cup UNION {{body[i].details[d].content[k].file :
                            k \in 1..Len(body[i].details[d].content)} :
                         d \in 1..Len(body[i].details)} :
              i \in PartsOfKind(body, "fileList")}
    \cup UNION {UNION {Range(body[i].warnings[w].fileList) :
                         w \in 1..Len(body[i].warnings)} :
                  i \in PartsOfKind(body, "warnings")}

(* C19: every manifest string embedded in the document (asset names in     *)
(* the file tables, names in the warnings list, attributed chunk names)    *)
(* is escaped: no pipe, angle bracket or quote of it reaches the document  *)
(* as it is.                                                               *)
C19_ManifestStringsEscaped ==
    Formatted => \A t \in EmbeddedTexts(commentBody) : ~HasRawSpecial(t)

(* C20: the document has the warnings block exactly when anyExceeded; the  *)
(* block has the total line exactly when totalExceeded, lists the first 5  *)
(* names of individualExceeded at most, and has an 'N more' line with      *)
(* N = length - 5 exactly when more than 5 names exceed.                   *)
C20_WarningsBlock ==
    Formatted =>
        LET blocks == PartsOfKind(commentBody, "warnings")
            names == result.threshold.individualExceeded
        IN /\ (blocks # {}) <=> result.threshold.anyExceeded
           /\ Cardinality(blocks) <= 1
           /\ \A b \in blocks :
                 LET ws == commentBody[b].warnings
                     totals == {w \in 1..Len(ws) : ws[w].kind = "total"}
                     files == {w \in 1..Len(ws) : ws[w].kind = "files"}
                 IN /\ (totals # {}) <=> result.threshold.totalExceeded
                    /\ (files # {}) <=> (Len(names) > 0)
                    /\ Cardinality(totals) <= 1 /\ Cardinality(files) <= 1
                    /\ \A w \in files :
                          /\ Len(ws[w].fileList) <= 5
                          /\ Len(ws[w].fileList)
                                = (IF Len(names) > 5 THEN 5 ELSE Len(names))
                          /\ \A k \in 1..Len(ws[w].fileList) :
                                ws[w].fileList[k]
                                   = <<" ", " ", "-", " ">>
                                        \o escapeMarkdown(names[k])
                          /\ (ws[w].more # <<>>) <=> (Len(names) > 5)
                          /\ Len(names) > 5
                                => ws[w].more = <<Len(names) - 5>>

C20_Witness ==
    /\ Formatted
    /\ result.threshold.totalExceeded
    /\ Len(result.threshold.individualExceeded) = 7
    /\ \E b \in PartsOfKind(commentBody, "warnings") :
          /\ Len(commentBody[b].warnings) = 2
          /\ commentBody[b].warnings[1].kind = "total"
          /\ Len(commentBody[b].warnings[2].fileList) = 5
          /\ commentBody[b].warnings[2].more = <<2>>

(* the file list part of the report, and the rows of its two tables *)
FileListPart == commentBody[CHOOSE i \in PartsOfKind(commentBody, "fileList") : TRUE]
TopRows == FileListPart.top
RemainderRows ==
    IF FileListPart.details = <<>> THEN <<>> ELSE FileListPart.details[1].content

RowShows(row, asset) ==
    /\ row.file = asset.name
    /\ row.size = asset.sizeText
    /\ row.status = (IF asset.exceeded THEN "cross" ELSE "check")

C22_BadgePalette ==
    Formatted =>
        LET expected == IF result.threshold.anyExceeded THEN "error" ELSE "success"
        IN /\ badgeSvg.colors = expected
           /\ generateStatus(result).colors = expected
           /\ badgeSvg.colors # "warning"
           /\ result.summary.exceededFileCount > 0 => result.threshold.anyExceeded

(* a badge in the error palette for files over the limit, with the total   *)
(* within its limit                                                        *)
C22_Witness ==
    /\ Formatted
    /\ result.summary.exceededFileCount > 0
    /\ ~result.threshold.totalExceeded
    /\ badgeSvg.colors = "error"

(* a badge in the success palette *)
C22_WitnessSuccess ==
    /\ Formatted
    /\ Len(result.assets) > 0
    /\ badgeSvg.colors = "success"

(* the call of formatFileSize has returned *)
SizeFormatted == pc = "done" /\ sizeText # NoValue

(* the text without its sign, the numeral before the blank and the unit    *)
(* after it                                                                *)
Unsigned(text) == IF Head(text) = "-" THEN Tail(text) ELSE text
BlankAt(text) == CHOOSE i \in 1..Len(text) : text[i] = " "
NumeralOf(text) == SubSeq(Unsigned(text), 1, BlankAt(Unsigned(text)) - 1)
UnitOf(text) ==
    SubSeq(Unsigned(text), BlankAt(Unsigned(text)) + 1, Len(Unsigned(text)))

(* number of base-1024 digits of the count: 5 and more is 1024^4 and more *)
CountDigits == Len(byteCount.magnitude)

(* C23: the unit of the text is one of B, KB, MB, GB for every byte count, *)
(* also for magnitudes of 1024^4 and more.                                 *)
C23_UnitAmongFour ==
    SizeFormatted =>
        UnitOf(sizeText) \in {<<"B">>, <<"K", "B">>, <<"M", "B">>, <<"G", "B">>}

(* below 1024^4 the unit is the one of the most significant digit *)
C23_UnitBelowTiB ==
    SizeFormatted /\ CountDigits \in 1..4 => UnitOf(sizeText) = SIZES[CountDigits]

(* 1024^4 bytes are printed with the text undefined for a unit *)
C23_UndefinedUnit ==
    /\ SizeFormatted
    /\ byteCount = [negative |-> FALSE, magnitude |-> <<0, 0, 0, 0, 1>>]
    /\ sizeText = <<"1", ".", "0", "0", " ">> \o UndefinedText

(* the scaled magnitude m = absBytes / 1024^i of the count is at least     *)
(* bound: its integer part is the most significant base-1024 digit         *)
ScaledAtLeast(bound) == byteCount.magnitude[CountDigits] >= bound

(* number of decimal places of a numeral *)
DecimalPlaces(numeral) ==
    IF \E j \in 1..Len(numeral) : numeral[j] = "."
    THEN Len(numeral) - (CHOOSE j \in 1..Len(numeral) : numeral[j] = ".")
    ELSE 0

RECURSIVE DigitsValue(_)
DigitsValue(numeral) ==
    IF numeral = <<>> THEN 0
    ELSE IF numeral[Len(numeral)] = "."
    THEN DigitsValue(SubSeq(numeral, 1, Len(numeral) - 1))
    ELSE 10 * DigitsValue(SubSeq(numeral, 1, Len(numeral) - 1))
         + digitValue(numeral[Len(numeral)])

(* C30: for a count from 1 to 1024^4 - 1 the unit is the largest one whose *)
(* scaled magnitude is at least 1, the numeral is below 1024, a numeral    *)
(* with one decimal is below 100.0 and a numeral with two is below 10.00.  *)
C30_NumeralBelowBoundary ==
    SizeFormatted /\ CountDigits \in 1..4 =>
        LET numeral == NumeralOf(sizeText)
            places == DecimalPlaces(numeral)
        IN /\ UnitOf(sizeText) = SIZES[CountDigits]
           /\ places = 0 => DigitsValue(numeral) < 1024
           /\ places = 1 => DigitsValue(numeral) < 1000
           /\ places = 2 => DigitsValue(numeral) < 1000

(* 1048575 bytes are printed as 1024 KB *)
C30_Prints1024KB ==
    /\ SizeFormatted
    /\ byteCount = [negative |-> FALSE, magnitude |-> <<1023, 1023>>]
    /\ sizeText = <<"1", "0", "2", "4", " ", "K", "B">>

(* 102349 bytes are printed as 100.0 KB *)
C30_Prints100Point0KB ==
    /\ SizeFormatted
    /\ byteCount = [negative |-> FALSE, magnitude |-> <<973, 99>>]
    /\ sizeText = <<"1", "0", "0", ".", "0", " ", "K", "B">>

(* the texts toUserMessage gives for the codes it has a case for *)
RemediationTexts ==
    {"Could not find the stats file", "Failed to parse the stats file",
     "The stats file format is invalid", "The stats file is too large to process",
     "Invalid threshold configuration"}

(* the run was aborted by a thrown value and was marked failed *)
AbortedFailed == RunEnded /\ thrown # NoError /\ failed

(* an error-level line with a remediation text precedes the setFailed call *)
RemediationBeforeFailure ==
    \E i \in 1..Len(log) :
        /\ log[i][1] = "error"
        /\ log[i][2] \in RemediationTexts
        /\ \E j \in (i + 1)..Len(log) : log[j][1] = "setFailed"

(* C25: every fatal error that aborts the run (missing, unreadable or too  *)
(* large file, unparsable or invalid manifest, invalid configuration)      *)
(* surfaces a remediation text of the code-to-text mapping, not the        *)
(* generic unexpected-error text, before the failure is signalled.         *)
C25_FatalErrorRemediation ==
    AbortedFailed =>
        /\ RemediationBeforeFailure
        /\ ~Logged("error", "An unexpected error occurred")
        /\ ~Logged("error", "Unexpected error")

(* the codes toUserMessage has a case for do surface their text *)
C25_MappedCodesRemediated ==
    AbortedFailed /\ thrown.isBSE /\ thrown.code # "FILE_READ_ERROR"
        => RemediationBeforeFailure

(* an unreadable stats file ends the run with the generic text *)
C25_ReadErrorGeneric ==
    /\ AbortedFailed
    /\ thrown.isBSE /\ thrown.code = "FILE_READ_ERROR" /\ thrown.level = "fatal"
    /\ log = <<<<"error", "An unexpected error occurred">>,
               <<"setFailed", "Failed to read stats file">>>>

(* an invalid threshold ends the run with the unexpected-error line *)
C25_InvalidThresholdGeneric ==
    /\ AbortedFailed
    /\ ~thrown.isBSE
    /\ ~includes(steps, "config")
    /\ Logged("error", "Unexpected error")
    /\ ~RemediationBeforeFailure

RECURSIVE BackslashesUpTo(_, _)
BackslashesUpTo(text, i) ==
    IF i >= 1 /\ text[i] = "\\" THEN 1 + BackslashesUpTo(text, i - 1) ELSE 0

(* the File cell of the only row of the report *)
OnlyCell == TopRows[1].file

(* C27: the escaped file name holds none of < > " ' and every pipe in it   *)
(* is preceded by an odd number of consecutive backslashes, so that it     *)
(* cannot end the table cell, also when the name already holds a           *)
(* backslash before a pipe.                                                *)
C27_EscapedCellSafe ==
    Formatted /\ Len(TopRows) = 1 =>
        /\ \A i \in 1..Len(OnlyCell) : OnlyCell[i] \notin {"<", ">", "\"", "'"}
        /\ \A i \in 1..Len(OnlyCell) :
              OnlyCell[i] = "|" => BackslashesUpTo(OnlyCell, i - 1) % 2 = 1

(* the part of the claim that holds: no < > " ' is left in the cell *)
C27_NoAngleOrQuote ==
    Formatted /\ Len(TopRows) = 1 =>
        \A i \in 1..Len(OnlyCell) : OnlyCell[i] \notin {"<", ">", "\"", "'"}

(* a name of a backslash and a pipe becomes two backslashes and a pipe *)
C27_BackslashPipe ==
    /\ Formatted
    /\ stats.assets[1].name = <<"\\", "|">>
    /\ OnlyCell = <<"\\", "\\", "|">>

(* C28: the two markers never collide: the document format returns holds   *)
(* the report marker and never the processing marker, and the processing   *)
(* document never holds the report marker.                                 *)
C28_MarkersNeverCollide ==
    /\ ~bodyIncludes(formatProcessing, COMMENT_IDENTIFIER)
    /\ Formatted =>
          /\ bodyIncludes(commentBody, COMMENT_IDENTIFIER)
          /\ ~bodyIncludes(commentBody, PROCESSING_IDENTIFIER)

(* the consequence the claim draws: the removal of the placeholders never  *)
(* removes a comment that carries the report marker                        *)
C28_DeleteKeepsReports ==
    [][pc = "deleteProcessing" =>
         \A i \in 1..Len(comments) :
             bodyIncludes(comments[i].body, COMMENT_IDENTIFIER)
                 => \E j \in 1..Len(comments') : comments'[j] = comments[i]]_vars

(* the parts of the claim that hold: the processing document does not      *)
(* carry the report marker, the report always carries its own, and the     *)
(* comment findComment selects is never a placeholder                      *)
C28_PlaceholderNeverSelected ==
    /\ ~bodyIncludes(formatProcessing, COMMENT_IDENTIFIER)
    /\ Formatted => bodyIncludes(commentBody, COMMENT_IDENTIFIER)
    /\ LET page == listPage(comments)
       IN findComment(page) # 0 => page[findComment(page)].body # formatProcessing

(* a report with a chunk named like the processing identifier is on the    *)
(* thread and carries both markers                                         *)
C28_ReportCarriesBoth ==
    \E i \in 1..Len(comments) :
        /\ bodyIncludes(comments[i].body, COMMENT_IDENTIFIER)
        /\ bodyIncludes(comments[i].body, PROCESSING_IDENTIFIER)

(* the names of the assets flagged exceeded, in the order of the list *)
RECURSIVE ExceededNames(_)
ExceededNames(assets) ==
    IF assets = <<>> THEN <<>>
    ELSE (IF Head(assets).exceeded THEN <<Head(assets).name>> ELSE <<>>)
         \o ExceededNames(Tail(assets))

(* C29: summary.fileCount is the length of result.assets,                  *)
(* summary.exceededFileCount is the length of individualExceeded, and      *)
(* individualExceeded is exactly the names of the assets whose exceeded    *)
(* flag is true, in the order of result.assets.                            *)
C29_SummaryCounts ==
    Analyzed =>
        /\ result.summary.fileCount = Len(result.assets)
        /\ result.summary.exceededFileCount =
              Len(result.threshold.individualExceeded)
        /\ result.threshold.individualExceeded = ExceededNames(result.assets)

(* a result with two files over the limit and one within it *)
C29_Witness ==
    /\ Analyzed
    /\ result.summary.fileCount = 3
    /\ result.summary.exceededFileCount = 2
    /\ ~result.assets[3].exceeded

====
